---- MODULE Spec2Model ----
(***************************************************************************)
(* Rule-based repository scanning engine: RepositoryScanner               *)
(* (repository_scanner.py), its rule producer PolicyProcessor              *)
(* (policy_processor.py) and the ComplianceAnalyzer facade                 *)
(* (compliance_analyzer.py) that wires them together.                      *)
(*                                                                         *)
(* Text is modelled as sequences of one-character strings, Python dicts    *)
(* as insertion-ordered sequences of <<key, value>> entries, Python lists  *)
(* as sequences, and a raised exception as the value Raise.                *)
(***************************************************************************)
EXTENDS Integers, Sequences, FiniteSets, Bags, TLC

\* ------------------------------------------------------------------ bounds
\* how many policy operations (process_single_policy / import_policies) a run performs
MaxPolicyOps == 2
\* how many scans a run starts
MaxScans == 2
\* aggregator harness: files counted and violations fed in
MaxAggFiles == 2
MaxAggViolations == 4
MaxReportViolations == 12

\* ------------------------------------------------------------------ generic helpers
Missing == "<missing>"
None == "<none>"

Range(s) == {s[i] : i \in 1..Len(s)}

Max2(a, b) == IF a >= b THEN a ELSE b

RECURSIVE SumSeq(_)
SumSeq(s) == IF s = <<>> THEN 0 ELSE Head(s) + SumSeq(Tail(s))

RECURSIVE Flatten(_)
Flatten(ss) == IF ss = <<>> THEN <<>> ELSE Head(ss) \o Flatten(Tail(ss))

\* d.get(key, default) on a record whose absent keys hold Missing
Get(v, default) == IF v = Missing THEN default ELSE v

\* ------------------------------------------------------------------ ordered dicts
DictKeys(d) == [i \in 1..Len(d) |-> d[i][1]]
DictValues(d) == [i \in 1..Len(d) |-> d[i][2]]
DictHas(d, k) == \E i \in 1..Len(d) : d[i][1] = k

\* d[k] = v : an existing key keeps its position, a new key goes last
DictSet(d, k, v) ==
    IF DictHas(d, k)
    THEN [i \in 1..Len(d) |-> IF d[i][1] = k THEN <<k, v>> ELSE d[i]]
    ELSE Append(d, <<k, v>>)

\* ------------------------------------------------------------------ text
\* str.lower() on the letters the model's texts use
Lower(c) ==
    CASE c = "A" -> "a" [] c = "B" -> "b" [] c = "D" -> "d" [] c = "E" -> "e"
      [] c = "O" -> "o" [] c = "P" -> "p" [] c = "R" -> "r" [] c = "S" -> "s"
      [] c = "T" -> "t" [] c = "W" -> "w"
      [] OTHER -> c

LowerStr(s) == [i \in 1..Len(s) |-> Lower(s[i])]

\* s[a:b] with Python's 0-based half-open bounds
Slice(s, a, b) == SubSeq(s, a + 1, b)

\* does `sub` occur in `s` starting at 0-based offset i
OccursAt(s, sub, i) ==
    /\ i + Len(sub) <= Len(s)
    /\ \A k \in 1..Len(sub) : s[i + k] = sub[k]

\* `sub in s`
Contains(s, sub) == \E i \in 0..Len(s) : OccursAt(s, sub, i)

\* s.rfind(sub), -1 when absent
RFind(s, sub) ==
    IF Contains(s, sub)
    THEN CHOOSE i \in 0..Len(s) :
            /\ OccursAt(s, sub, i)
            /\ \A j \in 0..Len(s) : OccursAt(s, sub, j) => j <= i
    ELSE -1

\* name.endswith(suffix)
EndsWith(s, suffix) ==
    /\ Len(suffix) <= Len(s)
    /\ OccursAt(s, suffix, Len(s) - Len(suffix))

\* a scan pattern that is not a str (re.compile raises TypeError on it)
NonStringPattern == <<"<int>">>
IsStringPattern(p) == p # NonStringPattern

\* ------------------------------------------------------------------ words
W_password == <<"p", "a", "s", "s", "w", "o", "r", "d">>
W_pwd == <<"p", "w", "d">>
W_passwd == <<"p", "a", "s", "s", "w", "d">>
W_auth == <<"a", "u", "t", "h">>
W_token == <<"t", "o", "k", "e", "n">>
W_personal_data == <<"p", "e", "r", "s", "o", "n", "a", "l", "_", "d", "a", "t", "a">>
W_pii == <<"p", "i", "i">>
W_sensitive == <<"s", "e", "n", "s", "i", "t", "i", "v", "e">>
W_confidential == <<"c", "o", "n", "f", "i", "d", "e", "n", "t", "i", "a", "l">>
W_log == <<"l", "o", "g">>
W_audit == <<"a", "u", "d", "i", "t">>
W_trace == <<"t", "r", "a", "c", "e">>
W_record == <<"r", "e", "c", "o", "r", "d">>
W_monitor == <<"m", "o", "n", "i", "t", "o", "r">>
W_data == <<"d", "a", "t", "a">>

\* ------------------------------------------------------------------ pattern matcher
\* re.compile(pattern, re.IGNORECASE), with the re.error fallback to
\* re.compile(re.escape(pattern)).  The model's patterns are words (valid, and
\* matching themselves), contain an unbalanced "[" (re.error, escaped to a
\* literal) or hold a repeat count of 2^32 (OverflowError from the regex
\* parser); a non-str pattern makes re.compile raise TypeError.  OverflowError
\* and TypeError are no re.error and propagate.
P_bracket == <<"p", "w", "d", "[">>
RepeatTooLarge == <<"{", "4", "2", "9", "4", "9", "6", "7", "2", "9", "6", "}">>
P_repeat == <<"a">> \o RepeatTooLarge

IsValidRegex(pattern) == ~Contains(pattern, <<"[">>) \/ Contains(pattern, <<"]">>)

CompileRegex(pattern) ==
    IF ~IsStringPattern(pattern)
    THEN [exc |-> TRUE, literal |-> <<>>]
    ELSE IF Contains(pattern, RepeatTooLarge)
         THEN [exc |-> TRUE, literal |-> <<>>]
         ELSE IF IsValidRegex(pattern)
              THEN [exc |-> FALSE, literal |-> LowerStr(pattern)]
              ELSE [exc |-> FALSE, literal |-> LowerStr(pattern)]

\* regex.finditer on a lower-cased line: the 0-based starts of the
\* non-overlapping matches, leftmost first; the empty pattern matches at
\* every position
RECURSIVE FindIter(_, _, _)
FindIter(line, literal, pos) ==
    IF Len(literal) = 0
    THEN [i \in 1..(Len(line) + 1) |-> i - 1]
    ELSE IF pos + Len(literal) > Len(line)
         THEN <<>>
         ELSE IF OccursAt(line, literal, pos)
              THEN <<pos>> \o FindIter(line, literal, pos + Len(literal))
              ELSE FindIter(line, literal, pos + 1)

comment_markers == << <<"#">>, <<"/", "/">>, <<"/", "*">>, <<"*">>, <<"<", "!", "-", "-">> >>

\* the same testing the whole line for a marker
IsInComment_WholeLine(line, position) ==
    \E m \in 1..Len(comment_markers) : Contains(line, comment_markers[m])

IsInComment(line, position) ==
    LET line_before_pos == Slice(line, 0, position)
    IN \E m \in 1..Len(comment_markers) :
          /\ Contains(line_before_pos, comment_markers[m])
          /\ RFind(line_before_pos, comment_markers[m]) < position

\* _generate_suggestion: the table entry of pattern.lower(), else the generic
\* text built from the category
GenerateSuggestion(pattern, category) ==
    LET p == LowerStr(pattern)
    IN CASE p \in {W_password, W_pwd, W_passwd} ->
              <<"Use environment variables or secure credential management">>
         [] p = W_personal_data ->
              <<"Implement proper data protection measures (encryption, access controls)">>
         [] p = W_pii ->
              <<"Handle personally identifiable information according to privacy regulations">>
         [] p = W_sensitive -> <<"Apply appropriate security controls for sensitive data">>
         [] p = W_log -> <<"Ensure audit logging includes necessary compliance information">>
         [] p = W_audit -> <<"Implement comprehensive audit trails for compliance">>
         [] p = W_auth -> <<"Use secure authentication mechanisms">>
         [] p = W_token -> <<"Implement secure token management practices">>
         [] OTHER -> <<"Review ", category, " compliance requirements">>

\* a Violation; the keys a kind of violation does not carry hold Missing
\* (strings), -1 (numbers) or <<>> (texts).  line_content and message are
\* functions of the other fields and are left out.
Violation(rule_id, file_path, line_number, column_start, column_end, matched_text, category, severity, description, suggestion) ==
    [rule_id |-> rule_id, file_path |-> file_path, line_number |-> line_number,
     column_start |-> column_start, column_end |-> column_end,
     matched_text |-> matched_text, category |-> category, severity |-> severity,
     description |-> description, suggestion |-> suggestion,
     violation_type |-> Missing, function_name |-> <<>>, imported_module |-> <<>>]

\* the same with a pattern compiled without re.IGNORECASE
LineViolations_CaseSensitive(line, line_num, literal, file_path, pattern, rule_id, category, severity, description) ==
    LET starts == FindIter(line, literal, 0)
        kept == SelectSeq(starts, LAMBDA st : ~IsInComment(line, st))
    IN [k \in 1..Len(kept) |->
          Violation(rule_id, file_path, line_num, kept[k], kept[k] + Len(literal),
                    Slice(line, kept[k], kept[k] + Len(literal)), category, severity,
                    description, GenerateSuggestion(pattern, category))]

\* the violations of one line: one per match that is not in a comment
LineViolations(line, line_num, literal, file_path, pattern, rule_id, category, severity, description) ==
    LET starts == FindIter(LowerStr(line), literal, 0)
        kept == SelectSeq(starts, LAMBDA st : ~IsInComment(line, st))
    IN [k \in 1..Len(kept) |->
          Violation(rule_id, file_path, line_num, kept[k], kept[k] + Len(literal),
                    Slice(line, kept[k], kept[k] + Len(literal)), category, severity,
                    description, GenerateSuggestion(pattern, category))]

\* _find_pattern_violations: [exc, val]
FindPatternViolations(content, file_path, pattern, rule_id, category, severity, description) ==
    LET lines == content.lines
        regex_pattern == CompileRegex(pattern)
    IN IF regex_pattern.exc
       THEN [exc |-> TRUE, val |-> <<>>]
       ELSE [exc |-> FALSE,
             val |-> Flatten([n \in 1..Len(lines) |->
                        LineViolations(lines[n], n, regex_pattern.literal, file_path,
                                       pattern, rule_id, category, severity,
                                       description)])]

\* ------------------------------------------------------------------ heuristic analyzers
\* The regex search for function definitions and import statements is given
\* with the file: content.functions and content.imports are the captured
\* names, in the order the patterns yield them.  The descriptions, which
\* only repeat the captured name, are shortened to a fixed text.
sensitive_keywords == <<W_auth, <<"l", "o", "g", "i", "n">>, W_password, W_data, <<"u", "s", "e", "r">> >>

risky_imports == << <<"s", "u", "b", "p", "r", "o", "c", "e", "s", "s">>, <<"o", "s", ".", "s", "y", "s", "t", "e", "m">>, <<"e", "v", "a", "l">>, <<"e", "x", "e", "c">>, <<"c", "r", "y", "p", "t", "o">>, <<"h", "a", "s", "h", "l", "i", "b">>, <<"s", "s", "l">>, <<"r", "e", "q", "u", "e", "s", "t", "s">>, <<"u", "r", "l", "l", "i", "b">>, <<"s", "q", "l", "i", "t", "e", "3">>, <<"m", "y", "s", "q", "l">>, <<"p", "o", "s", "t", "g", "r", "e", "s", "q", "l">> >>

\* _analyze_functions: [exc, val]; rule["rule_id"] and rule["category"] raise
\* KeyError when the rule lacks them
AnalyzeFunctions(content, file_path, rule) ==
    LET hits == SelectSeq(content.functions,
                    LAMBDA fn : \E k \in 1..Len(sensitive_keywords) :
                                   Contains(LowerStr(fn), sensitive_keywords[k]))
    IN IF hits # <<>> /\ (rule.rule_id = Missing \/ rule.category = Missing)
       THEN [exc |-> TRUE, val |-> <<>>]
       ELSE [exc |-> FALSE,
             val |-> [k \in 1..Len(hits) |->
                        [Violation(rule.rule_id, file_path, -1, -1, -1, <<>>,
                                   rule.category, "MEDIUM",
                                   "Function may require compliance review",
                                   <<"Review function for compliance with security/privacy requirements">>)
                         EXCEPT !.function_name = hits[k]]]]

\* _analyze_imports: [exc, val]
AnalyzeImports(content, file_path, rule) ==
    LET hits == SelectSeq(content.imports,
                    LAMBDA im : \E k \in 1..Len(risky_imports) :
                                   Contains(LowerStr(im), risky_imports[k]))
    IN IF hits # <<>> /\ rule.rule_id = Missing
       THEN [exc |-> TRUE, val |-> <<>>]
       ELSE [exc |-> FALSE,
             val |-> [k \in 1..Len(hits) |->
                        [Violation(rule.rule_id, file_path, -1, -1, -1, <<>>,
                                   "security", "LOW",
                                   "Import may require security review",
                                   <<"Ensure secure usage of imported module">>)
                         EXCEPT !.imported_module = hits[k]]]]

\* ------------------------------------------------------------------ one rule, one file
\* the same with the analysis violations put before the pattern matches
ApplyRuleBody_AnalysisFirst(content, file_path, rule) ==
    LET scan_patterns == rule.scan_patterns
        found == [i \in 1..Len(scan_patterns) |->
                    FindPatternViolations(content, file_path, scan_patterns[i],
                                          Get(rule.rule_id, "unknown"), Get(rule.category, "unknown"),
                                          Get(rule.severity, "MEDIUM"),
                                          Get(rule.description, "Compliance rule violation"))]
        check_type == Get(rule.check_type, "pattern_match")
        extra == CASE check_type = "function_analysis" -> AnalyzeFunctions(content, file_path, rule)
                   [] check_type = "import_analysis" -> AnalyzeImports(content, file_path, rule)
                   [] OTHER -> [exc |-> FALSE, val |-> <<>>]
    IN IF (\E i \in 1..Len(found) : found[i].exc) \/ extra.exc
       THEN [exc |-> TRUE, val |-> <<>>]
       ELSE [exc |-> FALSE,
             val |-> extra.val \o Flatten([i \in 1..Len(found) |-> found[i].val])]

\* the same with the check types as alternatives: an analysis replaces the
\* pattern matching
ApplyRuleBody_AnalysisInstead(content, file_path, rule) ==
    LET scan_patterns == rule.scan_patterns
        found == [i \in 1..Len(scan_patterns) |->
                    FindPatternViolations(content, file_path, scan_patterns[i],
                                          Get(rule.rule_id, "unknown"), Get(rule.category, "unknown"),
                                          Get(rule.severity, "MEDIUM"),
                                          Get(rule.description, "Compliance rule violation"))]
        check_type == Get(rule.check_type, "pattern_match")
    IN CASE check_type = "function_analysis" -> AnalyzeFunctions(content, file_path, rule)
         [] check_type = "import_analysis" -> AnalyzeImports(content, file_path, rule)
         [] OTHER -> IF \E i \in 1..Len(found) : found[i].exc
                     THEN [exc |-> TRUE, val |-> <<>>]
                     ELSE [exc |-> FALSE, val |-> Flatten([i \in 1..Len(found) |-> found[i].val])]

\* the body of _apply_rule_to_file's try block: [exc, val]
ApplyRuleBody(content, file_path, rule) ==
    LET scan_patterns == rule.scan_patterns
        rule_id == Get(rule.rule_id, "unknown")
        category == Get(rule.category, "unknown")
        severity == Get(rule.severity, "MEDIUM")
        description == Get(rule.description, "Compliance rule violation")
        found == [i \in 1..Len(scan_patterns) |->
                    FindPatternViolations(content, file_path, scan_patterns[i], rule_id,
                                          category, severity, description)]
        check_type == Get(rule.check_type, "pattern_match")
        extra == CASE check_type = "function_analysis" ->
                        AnalyzeFunctions(content, file_path, rule)
                   [] check_type = "import_analysis" ->
                        AnalyzeImports(content, file_path, rule)
                   [] OTHER -> [exc |-> FALSE, val |-> <<>>]
    IN IF (\E i \in 1..Len(found) : found[i].exc) \/ extra.exc
       THEN [exc |-> TRUE, val |-> <<>>]
       ELSE [exc |-> FALSE,
             val |-> Flatten([i \in 1..Len(found) |-> found[i].val]) \o extra.val]

\* the same without the try/except: an exception leaves the function
ApplyRuleToFile_NoExcept(content, file_path, rule) ==
    ApplyRuleBody(content, file_path, rule)

\* _apply_rule_to_file: any exception is logged and the rule yields []
ApplyRuleToFile(content, file_path, rule) ==
    LET r == ApplyRuleBody(content, file_path, rule)
    IN IF r.exc THEN [exc |-> FALSE, val |-> <<>>] ELSE r

\* ------------------------------------------------------------------ file contents
\* A file's text is its content.split('\n') : a non-empty sequence of lines.
Content_secret ==
    [lines |-> << <<"D", "A", "T", "A", "B", "A", "S", "E", "_", "P", "A", "S", "S", "W", "O", "R", "D", " ", "=", " ", "\"", "a", "d", "m", "i", "n", "1", "2", "3", "\"">> >>,
     functions |-> <<>>,
     imports |-> <<>>]

Content_clean ==
    [lines |-> << <<"x", " ", "=", " ", "1">> >>,
     functions |-> <<>>,
     imports |-> <<>>]

Content_many ==
    [lines |-> << <<"p", "w", "d", " ", "p", "w", "d">>,
                   <<"#", " ", "p", "w", "d">>,
                   <<"p", "w", "d", " ", "=", " ", "p", "a", "s", "s", "w", "d">> >>,
     functions |-> <<>>,
     imports |-> <<>>]

Content_logs ==
    [lines |-> << <<"t", "r", "a", "c", "e", "(", "x", ")">>,
                   <<"l", "o", "g", "(", "x", ")">> >>,
     functions |-> <<>>,
     imports |-> <<>>]

Content_code ==
    [lines |-> << <<"i", "m", "p", "o", "r", "t", " ", "s", "s", "l">>,
                   <<"d", "e", "f", " ", "l", "o", "g", "i", "n", "(", "u", ")", ":">> >>,
     functions |-> <<<<"l", "o", "g", "i", "n">>>>,
     imports |-> <<<<"s", "s", "l">>>>]

\* commented and uncommented matches, a marker after a match, an index
Content_comment ==
    [lines |-> << <<"#", " ", "p", "a", "s", "s", "w", "o", "r", "d", " ", "=", " ", "\"", "x", "\"">>,
                   <<"p", "a", "s", "s", "w", "o", "r", "d", " ", "=", " ", "\"", "x", "\"">>,
                   <<"p", "w", "d", " ", "=", " ", "1", " ", "#", " ", "x">>,
                   <<"x", " ", "=", " ", "p", "w", "d", "[", "0", "]">> >>,
     functions |-> <<>>,
     imports |-> <<>>]

\* len(content): the characters of the lines and the newlines between them
FileSize(content) == SumSeq([n \in 1..Len(content.lines) |-> Len(content.lines[n])]) + Len(content.lines) - 1

\* ------------------------------------------------------------------ file trees
\* An entry of the tree below the root: its directory (the names from the
\* root down), its name, whether it is a directory, whether open() and
\* read() succeed on it, and its text.  A tree lists its entries in the
\* order the directory walk meets them.
File(dir, name, content) == [dir |-> dir, name |-> name, is_dir |-> FALSE, readable |-> TRUE, content |-> content]
Unreadable(dir, name) == [dir |-> dir, name |-> name, is_dir |-> FALSE, readable |-> FALSE, content |-> Content_clean]
Directory(dir, name) == [dir |-> dir, name |-> name, is_dir |-> TRUE, readable |-> FALSE, content |-> Content_clean]

N_a_py == <<"a", ".", "p", "y">>
N_b_py == <<"b", ".", "p", "y">>
N_c_py == <<"c", ".", "p", "y">>
N_h_py == <<"h", ".", "p", "y">>
N_m_js == <<"m", ".", "j", "s">>
N_readme == <<"R", "E", "A", "D", "M", "E">>

Trees ==
    { << File(<<>>, N_a_py, Content_secret), File(<<>>, N_b_py, Content_clean) >>,
      << File(<<".git", "hooks">>, N_h_py, Content_secret), File(<<>>, N_m_js, Content_logs) >>,
      << File(<<>>, N_a_py, Content_many), Unreadable(<<>>, N_b_py), File(<<>>, N_readme, Content_secret) >>,
      << File(<<>>, N_a_py, Content_code), Directory(<<>>, N_b_py), File(<<>>, N_c_py, Content_comment) >>,
      << >> }

\* str(file_path) of an entry
PathOf(e) == [dir |-> e.dir, name |-> e.name]

\* the roots a caller may name: one exists, one does not
ExistingRoot == "repo"
Roots == {ExistingRoot, "no_such_dir"}

\* ------------------------------------------------------------------ rules
\* A Rule dict; a key the dict lacks holds Missing.  check_type is
\* rule["compliance_check"]["check_type"].
Rule(rule_id, description, category, severity, scan_patterns, check_type) == [rule_id |-> rule_id, description |-> description, category |-> category, severity |-> severity, scan_patterns |-> scan_patterns, check_type |-> check_type]

\* a list as a bag: the index lists are compared without their order, which
\* for list(set(...)) depends on the hash seed
SeqToBag(s) == [x \in Range(s) |-> Cardinality({i \in 1..Len(s) : s[i] = x})]

\* _load_default_rules: the three seed rules
DefaultRules ==
    << <<"security_001",
         Rule("security_001", "Passwords should not be hardcoded", "security", "HIGH",
              <<W_password, W_pwd, W_passwd>>, "pattern_match")>>,
       <<"data_001",
         Rule("data_001", "Personal data handling requires proper protection",
              "data_protection", "HIGH", <<W_personal_data, W_pii, W_sensitive>>,
              "pattern_match")>>,
       <<"logging_001",
         Rule("logging_001", "Audit logging should be implemented", "compliance", "MEDIUM",
              <<W_log, W_audit, W_trace>>, "pattern_match")>> >>

\* _load_default_rules: the category index written next to them
DefaultScanPatterns ==
    [c \in {"security", "data_protection", "compliance"} |->
        CASE c = "security" -> SeqToBag(<<W_password, W_pwd, W_passwd, W_auth, W_token>>)
          [] c = "data_protection" ->
               SeqToBag(<<W_personal_data, W_pii, W_sensitive, W_confidential>>)
          [] c = "compliance" -> SeqToBag(<<W_log, W_audit, W_trace, W_record, W_monitor>>)]

\* ------------------------------------------------------------------ policy processor
\* A policy text is seen only through substring tests, so it is modelled by
\* what those tests find: the category keywords the whole text contains and,
\* per sentence of content.split('.'), the tested words the sentence contains.
\* The transformers package is taken as not installed (the ImportError
\* branch): text_classifier, qa_pipeline and summarizer are None.
Sentence(text, words) == [text |-> text, words |-> words]

category_keywords ==
    << <<"data_protection", <<"personal data", "gdpr", "data protection", "privacy policy">> >>,
       <<"security", <<"security", "cybersecurity", "encryption", "access control">> >>,
       <<"privacy", <<"privacy", "personal information", "pii", "data subject">> >>,
       <<"compliance", <<"compliance", "regulatory", "audit", "monitoring">> >>,
       <<"liability", <<"liability", "damages", "indemnification", "limitation">> >>,
       <<"intellectual_property", <<"intellectual property", "copyright", "trademark", "patent">> >> >>

\* sorted(categories, key=confidence, reverse=True): stable, so of equal
\* confidences the earlier entry stays first.  confidence = min(score/len, 1)
\* is kept as the fraction score/len.
RECURSIVE SortByConfidence(_)
SortByConfidence(cats) ==
    IF cats = <<>> THEN <<>>
    ELSE LET best == CHOOSE i \in 1..Len(cats) :
                        /\ \A j \in 1..Len(cats) :
                              cats[j].score * cats[i].len <= cats[i].score * cats[j].len
                        /\ \A j \in 1..(i - 1) :
                              cats[j].score * cats[i].len < cats[i].score * cats[j].len
             rest == [k \in 1..(Len(cats) - 1) |-> IF k < best THEN cats[k] ELSE cats[k + 1]]
         IN <<cats[best]>> \o SortByConfidence(rest)

RuleBasedCategorization(content) ==
    LET scored == [i \in 1..Len(category_keywords) |->
                     [category |-> category_keywords[i][1],
                      score |-> Cardinality({k \in 1..Len(category_keywords[i][2]) :
                                    category_keywords[i][2][k] \in content.keywords}),
                      len |-> Len(category_keywords[i][2])]]
    IN SortByConfidence(SelectSeq(scored, LAMBDA c : c.score > 0))

requirement_indicators == {"must", "shall", "required", "mandatory", "obligation", "prohibited", "forbidden", "not allowed", "ensure", "implement"}

\* _extract_requirements_rules: the sentences holding an indicator, at most ten
MaxRequirements == 10
ExtractRequirementsRules(content) ==
    LET reqs == SelectSeq(content.sentences, LAMBDA st : st.words \cap requirement_indicators # {})
    IN SubSeq(reqs, 1, IF Len(reqs) < MaxRequirements THEN Len(reqs) ELSE MaxRequirements)

DetermineSeverity(requirement) ==
    IF requirement.words \cap {"must", "mandatory", "required", "shall"} # {} THEN "HIGH"
    ELSE IF requirement.words \cap {"should", "recommended", "advised"} # {} THEN "MEDIUM"
    ELSE "LOW"

ExtractScanPatterns(requirement) ==
    (IF "password" \in requirement.words THEN <<W_password, W_pwd, W_passwd, W_auth>> ELSE <<>>)
    \o (IF "encrypt" \in requirement.words
        THEN << <<"e", "n", "c", "r", "y", "p", "t">>, <<"d", "e", "c", "r", "y", "p", "t">>,
                <<"c", "i", "p", "h", "e", "r">>, <<"c", "r", "y", "p", "t", "o">> >>
        ELSE <<>>)
    \o (IF "log" \in requirement.words THEN <<W_log, W_audit, W_trace, W_record>> ELSE <<>>)
    \o (IF "access" \in requirement.words
        THEN << <<"a", "c", "c", "e", "s", "s">>, <<"p", "e", "r", "m", "i", "s", "s", "i", "o", "n">>,
                <<"a", "u", "t", "h", "o", "r", "i", "z", "e">>, <<"r", "o", "l", "e">> >>
        ELSE <<>>)
    \o (IF "data" \in requirement.words
        THEN <<W_personal_data, W_pii, W_sensitive, W_confidential>>
        ELSE <<>>)

\* f"rule_{i+1}" for the at most ten requirements
RuleIdOf(i) == <<"rule_1", "rule_2", "rule_3", "rule_4", "rule_5", "rule_6", "rule_7", "rule_8", "rule_9", "rule_10">>[i]

GenerateComplianceRules(requirements, categories) ==
    [i \in 1..Len(requirements) |->
        Rule(RuleIdOf(i), requirements[i].text,
             IF categories # <<>> THEN categories[1].category ELSE "general",
             DetermineSeverity(requirements[i]), ExtractScanPatterns(requirements[i]),
             "pattern_match")]

\* ------------------------------------------------------------------ policy catalogue
Policy_password ==
    [keywords |-> {"security"},
     sentences |-> << Sentence("Security policy", {}),
                      Sentence("Passwords must not be stored in code", {"must", "password"}) >>]

Policy_logging ==
    [keywords |-> {"compliance", "audit"},
     sentences |-> << Sentence("Implement audit logs", {"implement", "log"}),
                      Sentence("Personal data must be protected", {"must", "data"}) >>]

Policy_intro ==
    [keywords |-> {},
     sentences |-> << Sentence("This document is an introduction", {}) >>]

PolicyContents == {Policy_password, Policy_logging, Policy_intro}
PolicyIds == {"p1", "p2"}

\* the folders import_policies may be pointed at: the policy files found,
\* each with the id _generate_policy_id derives from its path
PolicyFolders ==
    { << <<"p1", Policy_password>>, <<"p2", Policy_password>> >> }

\* what PolicyProcessor finds in compliance_rules.json when it starts
SavedRules ==
    << << <<"p0", "rule_1">>,
          Rule("rule_1", "Credentials must be reviewed", "security", "CRITICAL",
               <<W_pwd>>, "function_analysis") >>,
       << <<"p0", "rule_2">>,
          Rule("rule_2", "Imports should be reviewed", "compliance", Missing,
               <<W_log>>, "import_analysis") >>,
       << <<"p0", "rule_3">>,
          Rule("rule_3", "Tokens must be rotated", "security", "HIGH",
               <<W_passwd, NonStringPattern>>, "pattern_match") >>,
       << <<"p0", "rule_4">>,
          Rule("rule_4", "Indexed credentials must be reviewed", "security", "LOW",
               <<P_bracket, W_password>>, "unknown_check") >>,
       << <<"p0", "rule_5">>,
          Rule("rule_5", "Secrets must not be repeated", "data_protection", "HIGH",
               <<W_pwd, P_repeat>>, Missing) >> >>

SavedRulesNoId ==
    << << <<"p0", "rule_1">>, Rule(Missing, "Hand-written rule", "security", "HIGH", <<W_pwd>>, "pattern_match") >> >>

\* compliance_rules.json: absent, a dict of rules, or a JSON list
RulesJsonFiles ==
    { [shape |-> "dict", d |-> <<>>],
      [shape |-> "dict", d |-> SavedRules],
      [shape |-> "dict", d |-> SavedRulesNoId],
      [shape |-> "list", d |-> <<>>] }

\* ------------------------------------------------------------------ PolicyProcessor
\* A processor: compliance_rules is what json.load or __init__ left (a dict,
\* or a list when the file held one); processed_policies maps a policy id to
\* the ids of the rules its last processing generated.
NoProcessor == [present |-> FALSE, compliance_rules |-> [shape |-> "dict", d |-> <<>>], processed_policies |-> <<>>]

NewPolicyProcessor(rules_json) == [present |-> TRUE, compliance_rules |-> rules_json, processed_policies |-> <<>>]

\* the store loop of process_policy (lines 271-273) on a dict
RECURSIVE StoreRules(_, _, _)
StoreRules(d, policy_id, rules) ==
    IF rules = <<>> THEN d
    ELSE StoreRules(DictSet(d, <<policy_id, Head(rules).rule_id>>, Head(rules)), policy_id, Tail(rules))

\* process_policy: the processor afterwards.  Storing into a list raises
\* TypeError, caught by the method's except: the policy is already recorded,
\* no rule is.
ProcessPolicy(pp, policy_id, content) ==
    LET rules == GenerateComplianceRules(ExtractRequirementsRules(content),
                                         RuleBasedCategorization(content))
        recorded == DictSet(pp.processed_policies, policy_id,
                            [i \in 1..Len(rules) |-> rules[i].rule_id])
    IN IF pp.compliance_rules.shape = "list" /\ rules # <<>>
       THEN [pp EXCEPT !.processed_policies = recorded]
       ELSE [pp EXCEPT !.processed_policies = recorded,
                       !.compliance_rules.d = StoreRules(@, policy_id, rules)]

\* import_policy_folder: process_policy on each policy file of the folder
RECURSIVE ImportPolicyFolder(_, _)
ImportPolicyFolder(pp, folder) ==
    IF folder = <<>> THEN pp
    ELSE ImportPolicyFolder(ProcessPolicy(pp, Head(folder)[1], Head(folder)[2]), Tail(folder))

\* _consolidate_scan_patterns: per category the list(set(...)) of the patterns
ConsolidateScanPatterns(d) ==
    LET rules == DictValues(d)
        cats == {Get(rules[i].category, "general") : i \in 1..Len(rules)}
    IN [c \in cats |->
          SetToBag(UNION {Range(rules[i].scan_patterns) :
                            i \in {j \in 1..Len(rules) : Get(rules[j].category, "general") = c}})]

\* get_compliance_rules_for_scanning: [exc, rules, scan_patterns]; .values()
\* on a list raises AttributeError
GetComplianceRulesForScanning(pp) ==
    IF pp.compliance_rules.shape = "list"
    THEN [exc |-> TRUE, rules |-> <<>>, scan_patterns |-> <<>>]
    ELSE [exc |-> FALSE, rules |-> DictValues(pp.compliance_rules.d),
          scan_patterns |-> ConsolidateScanPatterns(pp.compliance_rules.d)]

\* ------------------------------------------------------------------ RepositoryScanner rules
NoScanner == [present |-> FALSE, has_processor |-> FALSE, compliance_rules |-> <<>>, scan_patterns |-> <<>>]

\* {rule["rule_id"]: rule for rule in rules}
RECURSIVE RulesById(_, _)
RulesById(d, rules) ==
    IF rules = <<>> THEN d
    ELSE RulesById(DictSet(d, Head(rules).rule_id, Head(rules)), Tail(rules))

LoadDefaultRules(scanner) == [scanner EXCEPT !.compliance_rules = DefaultRules, !.scan_patterns = DefaultScanPatterns]

\* the same updating the dicts the scanner holds instead of rebinding them
LoadComplianceRules_Update(scanner, pp) ==
    IF scanner.has_processor
    THEN LET rules_data == GetComplianceRulesForScanning(pp)
         IN IF rules_data.exc \/ \E i \in 1..Len(rules_data.rules) : rules_data.rules[i].rule_id = Missing
            THEN [exc |-> TRUE, scanner |-> scanner]
            ELSE [exc |-> FALSE,
                  scanner |-> [scanner EXCEPT !.compliance_rules = RulesById(@, rules_data.rules),
                                              !.scan_patterns = rules_data.scan_patterns]]
    ELSE [exc |-> FALSE, scanner |-> LoadDefaultRules(scanner)]

\* _load_compliance_rules: [exc, scanner].  An exception of the producer, or
\* the KeyError of a rule without "rule_id", leaves before either attribute
\* is assigned.
LoadComplianceRules(scanner, pp) ==
    IF scanner.has_processor
    THEN LET rules_data == GetComplianceRulesForScanning(pp)
         IN IF rules_data.exc \/ \E i \in 1..Len(rules_data.rules) : rules_data.rules[i].rule_id = Missing
            THEN [exc |-> TRUE, scanner |-> scanner]
            ELSE [exc |-> FALSE,
                  scanner |-> [scanner EXCEPT !.compliance_rules = RulesById(<<>>, rules_data.rules),
                                              !.scan_patterns = rules_data.scan_patterns]]
    ELSE [exc |-> FALSE, scanner |-> LoadDefaultRules(scanner)]

\* RepositoryScanner.__init__ : [exc, scanner]
NewRepositoryScanner(pp) ==
    LoadComplianceRules([present |-> TRUE, has_processor |-> pp.present, compliance_rules |-> <<>>, scan_patterns |-> <<>>], pp)

\* ------------------------------------------------------------------ file walk
Ext_py == <<".", "p", "y">>
default_file_extensions == <<Ext_py, <<".", "j", "s">>, <<".", "t", "s">>, <<".", "j", "a", "v", "a">>, <<".", "c", "p", "p">>, <<".", "c">>, <<".", "c", "s">>, <<".", "p", "h", "p">>, <<".", "r", "b">>, <<".", "g", "o">> >>

\* the file_extensions argument: None, or a list
NoExtensions == [given |-> FALSE, list |-> <<>>]
Extensions(list) == [given |-> TRUE, list |-> list]
ExtensionArgs == {NoExtensions, Extensions(<<Ext_py, Ext_py>>)}

\* repo_path.rglob(f'*{ext}'): every entry at any depth, directories and the
\* contents of hidden directories included, whose name ends in ext
RGlob(tree, ext) == SelectSeq(tree, LAMBDA e : EndsWith(e.name, ext))

\* lines 115-117: code_files, one rglob after the other
CodeFiles(tree, file_extensions) == Flatten([x \in 1..Len(file_extensions) |-> RGlob(tree, file_extensions[x])])

\* ------------------------------------------------------------------ one file
NoFileResults == [file_path |-> [dir |-> <<>>, name |-> <<>>], file_size |-> 0, line_count |-> 0, violations |-> <<>>, compliance_checks |-> <<>>]

\* the rule loop tallying only the rules that found something
RECURSIVE ApplyRules_SkipsClean(_, _, _, _)
ApplyRules_SkipsClean(file_results, entry, rules, k) ==
    IF k > Len(rules) THEN [exc |-> FALSE, val |-> file_results]
    ELSE LET applied == ApplyRuleToFile(entry.content, PathOf(entry), rules[k][2])
         IN ApplyRules_SkipsClean(
               [file_results EXCEPT
                  !.violations = @ \o applied.val,
                  !.compliance_checks =
                      IF applied.val = <<>> THEN @
                      ELSE Append(@, [rule_id |-> rules[k][1],
                                      violations_found |-> Len(applied.val),
                                      category |-> Get(rules[k][2].category, "unknown")])],
               entry, rules, k + 1)

\* the rule loop of _scan_file (lines 182-191) from rule k on: [exc, val]
RECURSIVE ApplyRules(_, _, _, _)
ApplyRules(file_results, entry, rules, k) ==
    IF k > Len(rules) THEN [exc |-> FALSE, val |-> file_results]
    ELSE LET applied == ApplyRuleToFile(entry.content, PathOf(entry), rules[k][2])
         IN IF applied.exc
            THEN [exc |-> TRUE, val |-> file_results]
            ELSE ApplyRules([file_results EXCEPT
                               !.violations = @ \o applied.val,
                               !.compliance_checks =
                                   Append(@, [rule_id |-> rules[k][1],
                                              violations_found |-> Len(applied.val),
                                              category |-> Get(rules[k][2].category, "unknown")])],
                            entry, rules, k + 1)

\* the body of _scan_file's try block: [exc, val]; open() raises on a
\* directory and on an unreadable file
ScanFileBody(entry, compliance_rules) ==
    IF entry.is_dir \/ ~entry.readable
    THEN [exc |-> TRUE, val |-> NoFileResults]
    ELSE ApplyRules([file_path |-> PathOf(entry),
                     file_size |-> FileSize(entry.content),
                     line_count |-> Len(entry.content.lines),
                     violations |-> <<>>,
                     compliance_checks |-> <<>>],
                    entry, compliance_rules, 1)

\* the same without the except clause: the exception reaches the caller
ScanFile_Reraise(entry, compliance_rules) ==
    LET r == ScanFileBody(entry, compliance_rules)
    IN [status |-> IF r.exc THEN "raise" ELSE "ok", val |-> r.val]

\* _scan_file: the file's results, or None after any exception
ScanFile(entry, compliance_rules) ==
    LET r == ScanFileBody(entry, compliance_rules)
    IN IF r.exc THEN [status |-> "none", val |-> NoFileResults]
       ELSE [status |-> "ok", val |-> r.val]

\* the violation the coordinator records when _scan_file raises (lines 131-136)
ScanError(file_path) ==
    [Violation(Missing, file_path, -1, -1, -1, <<>>, Missing, "LOW", Missing, <<>>)
     EXCEPT !.violation_type = "scan_error"]

\* one pass of the loop of lines 122-136 over results
ScanOneFile(results, entry, compliance_rules) ==
    LET file_results == ScanFile(entry, compliance_rules)
    IN CASE file_results.status = "ok" ->
              [results EXCEPT !.scanned_files = Append(@, file_results.val),
                              !.violations = @ \o file_results.val.violations]
         [] file_results.status = "none" -> results
         [] file_results.status = "raise" ->
              [results EXCEPT !.violations = Append(@, ScanError(PathOf(entry)))]

\* ------------------------------------------------------------------ aggregation
\* counts[key] = counts.get(key, 0) + 1 over a list of keys, on a dict kept
\* as a function
RECURSIVE CountInto(_, _)
CountInto(counts, keys) ==
    IF keys = <<>> THEN counts
    ELSE LET k == Head(keys)
             bumped == [x \in DOMAIN counts \cup {k} |->
                          IF x = k THEN (IF k \in DOMAIN counts THEN counts[k] ELSE 0) + 1
                          ELSE counts[x]]
         IN CountInto(bumped, Tail(keys))

\* the summary with a closed severity vocabulary: an unknown severity is
\* counted as LOW
CalculateScanSummary_ClosedSeverities(results) ==
    LET violations == results.violations
        Closed(sev) == IF sev \in {"HIGH", "MEDIUM", "LOW"} THEN sev ELSE "LOW"
        files_with_violations == Cardinality({violations[i].file_path : i \in 1..Len(violations)})
        total_files_scanned == Len(results.scanned_files)
    IN [total_violations |-> Len(violations),
        severity_breakdown |->
            CountInto([x \in {"HIGH", "MEDIUM", "LOW"} |-> 0],
                      [i \in 1..Len(violations) |-> Closed(violations[i].severity)]),
        category_breakdown |->
            CountInto([x \in {} |-> 0],
                      [i \in 1..Len(violations) |-> Get(violations[i].category, "unknown")]),
        files_with_violations |-> files_with_violations,
        total_files_scanned |-> total_files_scanned,
        violation_rate |-> <<files_with_violations, Max2(total_files_scanned, 1)>>]

\* the summary counting a file each time the path changes along the list
CalculateScanSummary_PathChanges(results) ==
    LET violations == results.violations
        files_with_violations ==
            Cardinality({i \in 1..Len(violations) : i = 1 \/ violations[i].file_path # violations[i - 1].file_path})
        total_files_scanned == Len(results.scanned_files)
    IN [total_violations |-> Len(violations),
        severity_breakdown |->
            CountInto([x \in {"HIGH", "MEDIUM", "LOW"} |-> 0],
                      [i \in 1..Len(violations) |-> Get(violations[i].severity, "LOW")]),
        category_breakdown |->
            CountInto([x \in {} |-> 0],
                      [i \in 1..Len(violations) |-> Get(violations[i].category, "unknown")]),
        files_with_violations |-> files_with_violations,
        total_files_scanned |-> total_files_scanned,
        violation_rate |-> <<files_with_violations, Max2(total_files_scanned, 1)>>]

\* _calculate_scan_summary; violation_rate is kept as the fraction <<n, d>>
CalculateScanSummary(results) ==
    LET violations == results.violations
        severity_counts ==
            CountInto([x \in {"HIGH", "MEDIUM", "LOW"} |-> 0],
                      [i \in 1..Len(violations) |-> Get(violations[i].severity, "LOW")])
        category_counts ==
            CountInto([x \in {} |-> 0],
                      [i \in 1..Len(violations) |-> Get(violations[i].category, "unknown")])
        files_with_violations == Cardinality({violations[i].file_path : i \in 1..Len(violations)})
        total_files_scanned == Len(results.scanned_files)
    IN [total_violations |-> Len(violations),
        severity_breakdown |-> severity_counts,
        category_breakdown |-> category_counts,
        files_with_violations |-> files_with_violations,
        total_files_scanned |-> total_files_scanned,
        violation_rate |-> <<files_with_violations, Max2(total_files_scanned, 1)>>]

\* severity_weights.get(severity, 1)
SeverityWeight(severity) ==
    CASE severity = "HIGH" -> 3
      [] severity = "MEDIUM" -> 2
      [] severity = "LOW" -> 1
      [] OTHER -> 1

\* round(n / d * 1000): the nearest integer, a tie going to the even one
RoundHalfEven(n, d) ==
    LET q == n \div d
        r == n % d
    IN IF 2 * r < d THEN q
       ELSE IF 2 * r > d THEN q + 1
       ELSE IF q % 2 = 0 THEN q ELSE q + 1

\* _calculate_compliance_score, in thousandths: round(max(0.0, 1.0 - w/m), 3).
\* With fewer than 8 files no quotient lies halfway between two thousandths,
\* so the float result is the nearest thousandth of the exact quotient.
MaxViolationsPerFile == 10

\* the score without the max(0.0, ...) clamp
CalculateComplianceScore_NoClamp(results) ==
    LET violations == results.violations
        total_files == Len(results.scanned_files)
        weighted_violations ==
            SumSeq([i \in 1..Len(violations) |-> SeverityWeight(Get(violations[i].severity, "LOW"))])
        max_possible_violations == total_files * MaxViolationsPerFile
    IN IF total_files = 0 THEN 0
       ELSE -RoundHalfEven(1000 * (weighted_violations - max_possible_violations), max_possible_violations)

\* the score with an empty scan counted as fully compliant
CalculateComplianceScore_EmptyIsPerfect(results) ==
    IF Len(results.scanned_files) = 0 THEN 1000
    ELSE CalculateComplianceScore_NoClamp(results)

CalculateComplianceScore(results) ==
    LET violations == results.violations
        total_files == Len(results.scanned_files)
        weighted_violations ==
            SumSeq([i \in 1..Len(violations) |-> SeverityWeight(Get(violations[i].severity, "LOW"))])
        max_possible_violations == total_files * MaxViolationsPerFile
    IN IF total_files = 0 THEN 0
       ELSE RoundHalfEven(1000 * Max2(0, max_possible_violations - weighted_violations),
                          max_possible_violations)

\* ------------------------------------------------------------------ report
\* get_scan_report.  The report is kept as the list of its lines before the
\* "\n".join, each line as [text, value]: the fixed text of the f-string and
\* the value formatted into it.
ReportLine(text, value) == [text |-> text, value |-> value]

\* d.get(key, default) on a dict kept as a record or function
GetKey(d, key, default) == IF key \in DOMAIN d THEN d[key] ELSE default

\* high_violations[:10]
TopViolations == 10

\* f"{score:.1%}" on a score in thousandths: <<percent, tenth>>
FormatPercent(score) == <<score \div 10, score % 10>>

\* the keys of category_breakdown in insertion order, which is the order of
\* first appearance among the violations the summary was counted from
RECURSIVE CategoryOrder(_, _)
CategoryOrder(violations, seen) ==
    IF violations = <<>> THEN <<>>
    ELSE LET c == Get(Head(violations).category, "unknown")
         IN IF c \in seen THEN CategoryOrder(Tail(violations), seen)
            ELSE <<c>> \o CategoryOrder(Tail(violations), seen \cup {c})

\* the four lines of one listed violation and the blank line after them
ViolationLines(violation) ==
    << ReportLine("  File: ", violation.file_path),
       ReportLine("  Line: ", IF violation.line_number = -1 THEN "Unknown" ELSE violation.line_number),
       ReportLine("  Issue: ", Get(violation.description, "Unknown")),
       ReportLine("  Suggestion: ", IF violation.suggestion = <<>> THEN <<"Review required">> ELSE violation.suggestion),
       ReportLine("", "") >>

\* the same listing every HIGH violation
GetScanReport_NoLimit(results) ==
    LET summary == GetKey(results, "scan_summary", <<>>)
        severity_breakdown == GetKey(summary, "severity_breakdown", <<>>)
        category_breakdown == GetKey(summary, "category_breakdown", <<>>)
        violations == GetKey(results, "violations", <<>>)
        categories == SelectSeq(CategoryOrder(violations, {}), LAMBDA c : c \in DOMAIN category_breakdown)
        severities == <<"HIGH", "MEDIUM", "LOW">>
        high_violations == SelectSeq(violations, LAMBDA v : v.severity = "HIGH")
    IN << ReportLine("=", ""),
          ReportLine("COMPLIANCE SCAN REPORT", ""),
          ReportLine("=", ""),
          ReportLine("Repository: ", GetKey(results, "repository_path", "Unknown")),
          ReportLine("Scan Date: ", GetKey(results, "scan_timestamp", "Unknown")),
          ReportLine("Compliance Score: ", FormatPercent(GetKey(results, "compliance_score", 0))),
          ReportLine("Total Violations: ", GetKey(summary, "total_violations", 0)),
          ReportLine("Files Scanned: ", GetKey(summary, "total_files_scanned", 0)),
          ReportLine("", ""),
          ReportLine("VIOLATIONS BY SEVERITY:", "") >>
       \o [i \in 1..3 |-> ReportLine("  severity: ", <<severities[i], GetKey(severity_breakdown, severities[i], 0)>>)]
       \o << ReportLine("", "") >>
       \o (IF categories = <<>> THEN <<>>
           ELSE << ReportLine("VIOLATIONS BY CATEGORY:", "") >>
                \o [i \in 1..Len(categories) |-> ReportLine("  category: ", <<categories[i], category_breakdown[categories[i]]>>)]
                \o << ReportLine("", "") >>)
       \o (IF high_violations = <<>> THEN <<>>
           ELSE << ReportLine("HIGH SEVERITY VIOLATIONS:", "") >>
                \o Flatten([i \in 1..Len(high_violations) |-> ViolationLines(high_violations[i])]))
       \o << ReportLine("=", "") >>

\* get_scan_report
GetScanReport(results) ==
    LET summary == GetKey(results, "scan_summary", <<>>)
        severity_breakdown == GetKey(summary, "severity_breakdown", <<>>)
        category_breakdown == GetKey(summary, "category_breakdown", <<>>)
        violations == GetKey(results, "violations", <<>>)
        categories == SelectSeq(CategoryOrder(violations, {}), LAMBDA c : c \in DOMAIN category_breakdown)
        severities == <<"HIGH", "MEDIUM", "LOW">>
        high_violations == SelectSeq(violations, LAMBDA v : v.severity = "HIGH")
        top == SubSeq(high_violations, 1, IF Len(high_violations) < TopViolations THEN Len(high_violations) ELSE TopViolations)
    IN << ReportLine("=", ""),
          ReportLine("COMPLIANCE SCAN REPORT", ""),
          ReportLine("=", ""),
          ReportLine("Repository: ", GetKey(results, "repository_path", "Unknown")),
          ReportLine("Scan Date: ", GetKey(results, "scan_timestamp", "Unknown")),
          ReportLine("Compliance Score: ", FormatPercent(GetKey(results, "compliance_score", 0))),
          ReportLine("Total Violations: ", GetKey(summary, "total_violations", 0)),
          ReportLine("Files Scanned: ", GetKey(summary, "total_files_scanned", 0)),
          ReportLine("", ""),
          ReportLine("VIOLATIONS BY SEVERITY:", "") >>
       \o [i \in 1..3 |-> ReportLine("  severity: ", <<severities[i], GetKey(severity_breakdown, severities[i], 0)>>)]
       \o << ReportLine("", "") >>
       \o (IF categories = <<>> THEN <<>>
           ELSE << ReportLine("VIOLATIONS BY CATEGORY:", "") >>
                \o [i \in 1..Len(categories) |-> ReportLine("  category: ", <<categories[i], category_breakdown[categories[i]]>>)]
                \o << ReportLine("", "") >>)
       \o (IF high_violations = <<>> THEN <<>>
           ELSE << ReportLine("HIGH SEVERITY VIOLATIONS:", "") >>
                \o Flatten([i \in 1..Len(top) |-> ViolationLines(top[i])]))
       \o << ReportLine("=", "") >>

\* ------------------------------------------------------------------ state
VARIABLES
    fs,                  \* the tree below the existing root
    global_analyzer,     \* main._global_analyzer: "none" or "ready"
    policy_processor,    \* ComplianceAnalyzer.policy_processor
    repository_scanner,  \* ComplianceAnalyzer.repository_scanner
    scan,                \* per scanning thread: the scan_repository call it is in
    n_policy_ops,        \* policy operations performed
    n_scans,             \* scans started
    agg,                 \* the aggregator harness: a results dict and what was computed from it
    loading,             \* per policy thread: the _load_compliance_rules call it is in
    api                  \* the /ai-scan requests in flight and the analyzers they built

vars == <<fs, global_analyzer, policy_processor, repository_scanner, scan, n_policy_ops, n_scans, agg, loading, api>>

ScanIds == {"s1", "s2"}
\* the threads that scan in Spec
MainScans == {"s1"}

IdleScan == [pc |-> "idle", repo_path |-> None, file_extensions |-> <<>>, code_files |-> <<>>, next |-> 1, results |-> <<>>]

NoAgg == [pc |-> "off", results |-> [violations |-> <<>>, scanned_files |-> <<>>], scan_summary |-> <<>>, compliance_score |-> 0, report |-> <<>>]

\* the threads that call import_policies and process_single_policy in
\* SpecReload
PolicyThreads == {"t1", "t2"}

\* no _load_compliance_rules call is under way
IdleLoad == [pc |-> "idle", rules_data |-> <<>>]
NoLoading == [t \in PolicyThreads |-> IdleLoad]

\* the threads of the server's pool that serve /ai-scan
RequestIds == {"r1", "r2"}

\* analyzer is the number of the ComplianceAnalyzer object get_analyzer
\* returned, 0 for None; requests come with the default analysis_depth
IdleRequest == [pc |-> "idle", use_ai |-> TRUE, analysis_depth |-> "basic", analyzer |-> 0, response |-> <<>>]

\* constructed counts the ComplianceAnalyzer objects built so far; current is
\* the number of the one _global_analyzer refers to, 0 for None
\* instances holds, per object built, its policy_processor and
\* repository_scanner
NoApi == [ai_enabled |-> TRUE, constructed |-> 0, current |-> 0, instances |-> <<>>, request |-> [r \in RequestIds |-> IdleRequest]]

Init ==
    /\ fs \in Trees
    /\ global_analyzer = "none"
    /\ policy_processor = NoProcessor
    /\ repository_scanner = NoScanner
    /\ scan = [s \in ScanIds |-> IdleScan]
    /\ n_policy_ops = 0
    /\ n_scans = 0
    /\ agg = NoAgg
    /\ loading = NoLoading
    /\ api = NoApi

\* ------------------------------------------------------------------ construction
\* ComplianceAnalyzer._initialize_pipelines, policy processor and scanner:
\* [policy_processor, repository_scanner].  A PolicyProcessor that fails to
\* start leaves None; a scanner whose construction raises leaves None.
InitializePipelines(rules_json, processor_fails) ==
    LET pp == IF processor_fails THEN NoProcessor ELSE NewPolicyProcessor(rules_json)
        made == NewRepositoryScanner(pp)
    IN [policy_processor |-> pp,
        repository_scanner |-> IF made.exc THEN NoScanner ELSE made.scanner]

\* get_analyzer, first call: builds the global ComplianceAnalyzer
GetAnalyzer(rules_json, processor_fails) ==
    /\ global_analyzer = "none"
    /\ LET built == InitializePipelines(rules_json, processor_fails)
       IN /\ policy_processor' = built.policy_processor
          /\ repository_scanner' = built.repository_scanner
    /\ global_analyzer' = "ready"
    /\ UNCHANGED <<fs, scan, n_policy_ops, n_scans, agg, loading, api>>

\* ------------------------------------------------------------------ policy operations
\* "Reload scanner with new rules": an exception of _load_compliance_rules is
\* caught by the caller's except, the scanner keeps what it held
ReloadScanner(scanner, pp) ==
    IF scanner.present THEN LoadComplianceRules(scanner, pp).scanner ELSE scanner

\* ComplianceAnalyzer.process_single_policy
ProcessSinglePolicy(policy_content, policy_id) ==
    /\ global_analyzer = "ready"
    /\ n_policy_ops < MaxPolicyOps
    /\ n_policy_ops' = n_policy_ops + 1
    /\ IF ~policy_processor.present
       THEN UNCHANGED <<policy_processor, repository_scanner>>
       ELSE /\ policy_processor' = ProcessPolicy(policy_processor, policy_id, policy_content)
            /\ repository_scanner' = ReloadScanner(repository_scanner, policy_processor')
    /\ UNCHANGED <<fs, global_analyzer, scan, n_scans, agg, loading, api>>

\* ComplianceAnalyzer.import_policies
ImportPolicies(folder) ==
    /\ global_analyzer = "ready"
    /\ n_policy_ops < MaxPolicyOps
    /\ n_policy_ops' = n_policy_ops + 1
    /\ IF ~policy_processor.present
       THEN UNCHANGED <<policy_processor, repository_scanner>>
       ELSE /\ policy_processor' = ImportPolicyFolder(policy_processor, folder)
            /\ repository_scanner' = ReloadScanner(repository_scanner, policy_processor')
    /\ UNCHANGED <<fs, global_analyzer, scan, n_scans, agg, loading, api>>

\* ------------------------------------------------------------------ scanning
\* The clock readings scan_timestamp and scan_duration are kept as tokens.
NewResults(repo_path, scanner) ==
    [repository_path |-> repo_path, scan_timestamp |-> "t", scan_summary |-> <<>>,
     violations |-> <<>>, compliance_score |-> 0, scanned_files |-> <<>>,
     rules_applied |-> Len(scanner.compliance_rules), scan_duration |-> 0]

ErrorResults(repo_path) ==
    [repository_path |-> repo_path, scan_timestamp |-> "t",
     error |-> "Repository path not found", scan_duration |-> "d"]

\* ComplianceAnalyzer.scan_repository without a scanner
NoScannerResults == [error |-> "Repository scanner not initialized"]

\* the same without the exists() test: rglob below a missing root finds nothing
ScanRepositoryBegin_NoExistsTest(repo_path, file_extensions) ==
    LET exts == IF file_extensions.given THEN file_extensions.list ELSE default_file_extensions
    IN [pc |-> "scanning", repo_path |-> repo_path, file_extensions |-> exts,
        code_files |-> CodeFiles(IF repo_path = ExistingRoot THEN fs ELSE <<>>, exts),
        next |-> 1, results |-> NewResults(repo_path, repository_scanner)]

\* the same on a directory listing whose order changes from one call to the next
ScanRepositoryBegin_UnstableListing(repo_path, file_extensions) ==
    LET exts == IF file_extensions.given THEN file_extensions.list ELSE default_file_extensions
        found == CodeFiles(fs, exts)
    IN IF repo_path # ExistingRoot
       THEN [IdleScan EXCEPT !.pc = "done", !.repo_path = repo_path, !.results = ErrorResults(repo_path)]
       ELSE [pc |-> "scanning", repo_path |-> repo_path, file_extensions |-> exts,
             code_files |-> IF n_scans % 2 = 0 THEN found
                            ELSE [i \in 1..Len(found) |-> found[Len(found) + 1 - i]],
             next |-> 1, results |-> NewResults(repo_path, repository_scanner)]

\* scan_repository up to the file loop (lines 93-119): the call's state
ScanRepositoryBegin(repo_path, file_extensions) ==
    LET exts == IF file_extensions.given THEN file_extensions.list ELSE default_file_extensions
    IN IF repo_path # ExistingRoot
       THEN [IdleScan EXCEPT !.pc = "done", !.repo_path = repo_path, !.results = ErrorResults(repo_path)]
       ELSE [pc |-> "scanning", repo_path |-> repo_path, file_extensions |-> exts,
             code_files |-> CodeFiles(fs, exts),
             next |-> 1, results |-> NewResults(repo_path, repository_scanner)]

\* ComplianceAnalyzer.scan_repository entering RepositoryScanner.scan_repository
ScanBegin(s, repo_path, file_extensions) ==
    /\ global_analyzer = "ready"
    /\ scan[s].pc \in {"idle", "done"}
    /\ n_scans < MaxScans
    /\ n_scans' = n_scans + 1
    /\ scan' = [scan EXCEPT ![s] =
            IF ~repository_scanner.present
            THEN [IdleScan EXCEPT !.pc = "done", !.repo_path = repo_path, !.results = NoScannerResults]
            ELSE ScanRepositoryBegin(repo_path, file_extensions)]
    /\ UNCHANGED <<fs, global_analyzer, policy_processor, repository_scanner, n_policy_ops, agg, loading, api>>

\* the same with the results kept in an attribute of the scanner, which the
\* calls under way share
ScanNextFile_SharedResults(s) ==
    /\ scan[s].pc = "scanning"
    /\ scan[s].next <= Len(scan[s].code_files)
    /\ LET shared == ScanOneFile(scan[s].results, scan[s].code_files[scan[s].next], repository_scanner.compliance_rules)
       IN scan' = [t \in ScanIds |->
                     IF t = s THEN [scan[t] EXCEPT !.results = shared, !.next = @ + 1]
                     ELSE IF scan[t].pc = "scanning" THEN [scan[t] EXCEPT !.results = shared]
                     ELSE scan[t]]
    /\ UNCHANGED <<fs, global_analyzer, policy_processor, repository_scanner, n_policy_ops, n_scans, agg, loading, api>>

\* one pass of the file loop (lines 122-136), on the rules the scanner holds now
ScanNextFile(s) ==
    /\ scan[s].pc = "scanning"
    /\ scan[s].next <= Len(scan[s].code_files)
    /\ scan' = [scan EXCEPT ![s].results = ScanOneFile(@, scan[s].code_files[scan[s].next], repository_scanner.compliance_rules),
                            ![s].next = @ + 1]
    /\ UNCHANGED <<fs, global_analyzer, policy_processor, repository_scanner, n_policy_ops, n_scans, agg, loading, api>>

\* after the loop (lines 138-147): summary, score, return
FinishResults(results) ==
    LET summed == [results EXCEPT !.scan_summary = CalculateScanSummary(results)]
    IN [summed EXCEPT !.compliance_score = CalculateComplianceScore(summed), !.scan_duration = "d"]

\* the file loop from file k on, run without interruption
RECURSIVE ScanFilesFrom(_, _, _, _)
ScanFilesFrom(results, code_files, k, compliance_rules) ==
    IF k > Len(code_files) THEN results
    ELSE ScanFilesFrom(ScanOneFile(results, code_files[k], compliance_rules), code_files, k + 1, compliance_rules)

\* RepositoryScanner.scan_repository as one call on the tree below the
\* existing root: what it returns
ScanRepository(scanner, tree, repo_path, file_extensions) ==
    LET exts == IF file_extensions.given THEN file_extensions.list ELSE default_file_extensions
    IN IF repo_path # ExistingRoot THEN ErrorResults(repo_path)
       ELSE FinishResults(ScanFilesFrom(NewResults(repo_path, scanner), CodeFiles(tree, exts), 1, scanner.compliance_rules))

ScanFinish(s) ==
    /\ scan[s].pc = "scanning"
    /\ scan[s].next > Len(scan[s].code_files)
    /\ scan' = [scan EXCEPT ![s].results = FinishResults(@), ![s].pc = "done"]
    /\ UNCHANGED <<fs, global_analyzer, policy_processor, repository_scanner, n_policy_ops, n_scans, agg, loading, api>>

Next ==
    \/ \E rules_json \in RulesJsonFiles : GetAnalyzer(rules_json, FALSE)
    \/ GetAnalyzer([shape |-> "dict", d |-> <<>>], TRUE)
    \/ \E policy_content \in PolicyContents, policy_id \in PolicyIds : ProcessSinglePolicy(policy_content, policy_id)
    \/ \E folder \in PolicyFolders : ImportPolicies(folder)
    \/ \E s \in MainScans, repo_path \in Roots, file_extensions \in ExtensionArgs : ScanBegin(s, repo_path, file_extensions)
    \/ \E s \in MainScans : ScanNextFile(s)
    \/ \E s \in MainScans : ScanFinish(s)

Spec == Init /\ [][Next]_vars

\* ------------------------------------------------------------------ scans on a fixed RuleSet
\* The analyzer is built once and no policy is processed afterwards; every
\* thread may scan, one call after the other or interleaved.
NextScans ==
    \/ \E rules_json \in RulesJsonFiles : GetAnalyzer(rules_json, FALSE)
    \/ GetAnalyzer([shape |-> "dict", d |-> <<>>], TRUE)
    \/ \E s \in ScanIds, repo_path \in Roots, file_extensions \in ExtensionArgs : ScanBegin(s, repo_path, file_extensions)
    \/ \E s \in ScanIds : ScanNextFile(s)
    \/ \E s \in ScanIds : ScanFinish(s)

SpecScans == Init /\ [][NextScans]_vars

\* ------------------------------------------------------------------ aggregator harness
\* _calculate_scan_summary and _calculate_compliance_score on results dicts
\* built one violation and one scanned file at a time.
AggSeverities == {"HIGH", "MEDIUM", "LOW", "CRITICAL", Missing}

AggViolation(severity) ==
    Violation("r", [dir |-> <<>>, name |-> N_a_py], 1, 0, 1, <<"x">>, "security", severity, "d", <<"s">>)

InitAgg ==
    /\ fs = <<>>
    /\ global_analyzer = "none"
    /\ policy_processor = NoProcessor
    /\ repository_scanner = NoScanner
    /\ scan = [s \in ScanIds |-> IdleScan]
    /\ n_policy_ops = 0
    /\ n_scans = 0
    /\ agg = [NoAgg EXCEPT !.pc = "building"]
    /\ loading = NoLoading
    /\ api = NoApi

AggAddFile ==
    /\ agg.pc \in {"building", "computed"}
    /\ Len(agg.results.scanned_files) < MaxAggFiles
    /\ agg' = [agg EXCEPT !.pc = "building", !.results.scanned_files = Append(@, NoFileResults)]
    /\ UNCHANGED <<fs, global_analyzer, policy_processor, repository_scanner, scan, n_policy_ops, n_scans, loading, api>>

AggAddViolation(severity) ==
    /\ agg.pc \in {"building", "computed"}
    /\ Len(agg.results.violations) < MaxAggViolations
    /\ agg' = [agg EXCEPT !.pc = "building", !.results.violations = Append(@, AggViolation(severity))]
    /\ UNCHANGED <<fs, global_analyzer, policy_processor, repository_scanner, scan, n_policy_ops, n_scans, loading, api>>

AggCompute ==
    /\ agg.pc = "building"
    /\ agg' = [agg EXCEPT !.pc = "computed",
                          !.scan_summary = CalculateScanSummary(agg.results),
                          !.compliance_score = CalculateComplianceScore(agg.results)]
    /\ UNCHANGED <<fs, global_analyzer, policy_processor, repository_scanner, scan, n_policy_ops, n_scans, loading, api>>

NextAgg ==
    \/ AggAddFile
    \/ \E severity \in AggSeverities : AggAddViolation(severity)
    \/ AggCompute

SpecAgg == InitAgg /\ [][NextAgg]_vars

\* ------------------------------------------------------------------ report harness
\* get_scan_report on the results of scans whose violations are listed one
\* at a time; each violation carries its position as line number.
ReportSeverities == {"HIGH", "LOW"}

ReportViolation(severity, n) ==
    Violation("r", [dir |-> <<>>, name |-> N_a_py], n, 0, 1, <<"x">>, "security", severity, "d", <<"s">>)

InitReport ==
    /\ fs = <<>>
    /\ global_analyzer = "none"
    /\ policy_processor = NoProcessor
    /\ repository_scanner = NoScanner
    /\ scan = [s \in ScanIds |-> IdleScan]
    /\ n_policy_ops = 0
    /\ n_scans = 0
    /\ agg = [NoAgg EXCEPT !.pc = "listing",
                            !.results = [NewResults(ExistingRoot, NoScanner) EXCEPT !.scanned_files = <<NoFileResults>>]]
    /\ loading = NoLoading
    /\ api = NoApi

ReportAddViolation(severity) ==
    /\ agg.pc = "listing"
    /\ Len(agg.results.violations) < MaxReportViolations
    /\ agg' = [agg EXCEPT !.results.violations = Append(@, ReportViolation(severity, Len(@) + 1))]
    /\ UNCHANGED <<fs, global_analyzer, policy_processor, repository_scanner, scan, n_policy_ops, n_scans, loading, api>>

\* the scan returns its results
ReportScanReturns ==
    /\ agg.pc = "listing"
    /\ agg' = [agg EXCEPT !.pc = "returned", !.results = FinishResults(@)]
    /\ UNCHANGED <<fs, global_analyzer, policy_processor, repository_scanner, scan, n_policy_ops, n_scans, loading, api>>

\* get_scan_report(results)
ReportGenerate ==
    /\ agg.pc = "returned"
    /\ agg' = [agg EXCEPT !.pc = "reported", !.report = GetScanReport(agg.results)]
    /\ UNCHANGED <<fs, global_analyzer, policy_processor, repository_scanner, scan, n_policy_ops, n_scans, loading, api>>

NextReport ==
    \/ \E severity \in ReportSeverities : ReportAddViolation(severity)
    \/ ReportScanReturns
    \/ ReportGenerate

SpecReport == InitReport /\ [][NextReport]_vars

\* ------------------------------------------------------------------ reloads, statement by statement
\* Two threads call process_single_policy and import_policies on the global
\* analyzer.  The producer's process_policy is taken as one step; the reload
\* that follows is taken statement by statement: the two reads of
\* get_compliance_rules_for_scanning (policy_processor.py 503 and 506) and the
\* two assignments of _load_compliance_rules (repository_scanner.py 40 and 41).
InitReload ==
    /\ fs = <<>>
    /\ global_analyzer = "none"
    /\ policy_processor = NoProcessor
    /\ repository_scanner = NoScanner
    /\ scan = [s \in ScanIds |-> IdleScan]
    /\ n_policy_ops = 0
    /\ n_scans = 0
    /\ agg = NoAgg
    /\ loading = NoLoading
    /\ api = NoApi

\* process_single_policy up to the reload (lines 473-486)
PolicyCall(t, policy_content, policy_id) ==
    /\ global_analyzer = "ready"
    /\ loading[t].pc = "idle"
    /\ n_policy_ops < MaxPolicyOps
    /\ n_policy_ops' = n_policy_ops + 1
    /\ IF ~policy_processor.present
       THEN UNCHANGED <<policy_processor, loading>>
       ELSE /\ policy_processor' = ProcessPolicy(policy_processor, policy_id, policy_content)
            /\ loading' = [loading EXCEPT ![t].pc = IF repository_scanner.present THEN "read_rules" ELSE "idle"]
    /\ UNCHANGED <<fs, global_analyzer, repository_scanner, scan, n_scans, agg, api>>

\* import_policies up to the reload (lines 430-439)
ImportCall(t, folder) ==
    /\ global_analyzer = "ready"
    /\ loading[t].pc = "idle"
    /\ n_policy_ops < MaxPolicyOps
    /\ n_policy_ops' = n_policy_ops + 1
    /\ IF ~policy_processor.present
       THEN UNCHANGED <<policy_processor, loading>>
       ELSE /\ policy_processor' = ImportPolicyFolder(policy_processor, folder)
            /\ loading' = [loading EXCEPT ![t].pc = IF repository_scanner.present THEN "read_rules" ELSE "idle"]
    /\ UNCHANGED <<fs, global_analyzer, repository_scanner, scan, n_scans, agg, api>>

\* "rules": list(self.compliance_rules.values()); the AttributeError of a
\* list is caught by the caller's except and ends the call
LoadReadRules(t) ==
    /\ loading[t].pc = "read_rules"
    /\ loading' = [loading EXCEPT ![t] =
            IF policy_processor.compliance_rules.shape = "list" THEN IdleLoad
            ELSE [pc |-> "read_index",
                  rules_data |-> [rules |-> DictValues(policy_processor.compliance_rules.d), scan_patterns |-> <<>>]]]
    /\ UNCHANGED <<fs, global_analyzer, policy_processor, repository_scanner, scan, n_policy_ops, n_scans, agg, api>>

\* "scan_patterns": self._consolidate_scan_patterns()
LoadReadIndex(t) ==
    /\ loading[t].pc = "read_index"
    /\ loading' = [loading EXCEPT ![t].pc = "assign_rules",
                                  ![t].rules_data.scan_patterns = ConsolidateScanPatterns(policy_processor.compliance_rules.d)]
    /\ UNCHANGED <<fs, global_analyzer, policy_processor, repository_scanner, scan, n_policy_ops, n_scans, agg, api>>

\* self.compliance_rules = {rule["rule_id"]: rule for rule in rules_data["rules"]}
LoadAssignRules(t) ==
    /\ loading[t].pc = "assign_rules"
    /\ IF \E i \in 1..Len(loading[t].rules_data.rules) : loading[t].rules_data.rules[i].rule_id = Missing
       THEN /\ loading' = [loading EXCEPT ![t] = IdleLoad]
            /\ UNCHANGED repository_scanner
       ELSE /\ repository_scanner' = [repository_scanner EXCEPT !.compliance_rules = RulesById(<<>>, loading[t].rules_data.rules)]
            /\ loading' = [loading EXCEPT ![t].pc = "assign_patterns"]
    /\ UNCHANGED <<fs, global_analyzer, policy_processor, scan, n_policy_ops, n_scans, agg, api>>

\* self.scan_patterns = rules_data["scan_patterns"], and the return
LoadAssignPatterns(t) ==
    /\ loading[t].pc = "assign_patterns"
    /\ repository_scanner' = [repository_scanner EXCEPT !.scan_patterns = loading[t].rules_data.scan_patterns]
    /\ loading' = [loading EXCEPT ![t] = IdleLoad]
    /\ UNCHANGED <<fs, global_analyzer, policy_processor, scan, n_policy_ops, n_scans, agg, api>>

NextReload ==
    \/ \E rules_json \in RulesJsonFiles : GetAnalyzer(rules_json, FALSE)
    \/ GetAnalyzer([shape |-> "dict", d |-> <<>>], TRUE)
    \/ \E t \in PolicyThreads, policy_content \in PolicyContents, policy_id \in PolicyIds : PolicyCall(t, policy_content, policy_id)
    \/ \E t \in PolicyThreads, folder \in PolicyFolders : ImportCall(t, folder)
    \/ \E t \in PolicyThreads : LoadReadRules(t)
    \/ \E t \in PolicyThreads : LoadReadIndex(t)
    \/ \E t \in PolicyThreads : LoadAssignRules(t)
    \/ \E t \in PolicyThreads : LoadAssignPatterns(t)

SpecReload == InitReload /\ [][NextReload]_vars

\* ------------------------------------------------------------------ /ai-scan
\* utils.git_utils.analyze_repository_files at analysis_depth "basic"
W_api_key == <<"a", "p", "i", "_", "k", "e", "y">>

basic_extensions == << Ext_py, <<".", "j", "s">>, <<".", "j", "a", "v", "a">>, <<".", "c", "p", "p">> >>

\* the extensions /ai-scan passes to the analyzer
ai_scan_extensions ==
    << Ext_py, <<".", "j", "s">>, <<".", "j", "a", "v", "a">>, <<".", "c", "p", "p">>, <<".", "c">>,
       <<".", "p", "h", "p">>, <<".", "r", "b">>, <<".", "g", "o">>, <<".", "r", "s">>, <<".", "t", "s">>,
       <<".", "j", "s", "x">>, <<".", "t", "s", "x">> >>

\* _find_line_number: the first line whose lower case holds the term, else 1
FindLineNumber(content, search_term) ==
    LET hits == {n \in 1..Len(content.lines) : Contains(LowerStr(content.lines[n]), search_term)}
    IN IF hits = {} THEN 1 ELSE CHOOSE n \in hits : \A m \in hits : n <= m

\* term in content.lower() and '=' in content
MentionsWithAssignment(content, term) ==
    /\ \E n \in 1..Len(content.lines) : Contains(LowerStr(content.lines[n]), term)
    /\ \E n \in 1..Len(content.lines) : Contains(content.lines[n], <<"=">>)

BasicIssue(e, issue, term) ==
    [file |-> PathOf(e), issue |-> issue, severity |-> "high", line |-> FindLineNumber(e.content, term)]

\* the issues of one entry of the walk: directories are no files, .git is
\* not descended, a file that cannot be opened is skipped
BasicIssuesOf(e) ==
    IF e.is_dir \/ ".git" \in Range(e.dir) \/ ~e.readable
       \/ ~\E x \in 1..Len(basic_extensions) : EndsWith(e.name, basic_extensions[x])
    THEN <<>>
    ELSE (IF MentionsWithAssignment(e.content, W_password)
          THEN <<BasicIssue(e, "Potential hardcoded password", W_password)>> ELSE <<>>)
         \o (IF MentionsWithAssignment(e.content, W_api_key)
             THEN <<BasicIssue(e, "Potential hardcoded API key", W_api_key)>> ELSE <<>>)

AnalyzeRepositoryFiles(tree) == Flatten([i \in 1..Len(tree) |-> BasicIssuesOf(tree[i])])

\* ComplianceAnalyzer.scan_repository
AnalyzerScanRepository(scanner, tree, repo_path, file_extensions) ==
    IF ~scanner.present THEN NoScannerResults
    ELSE ScanRepository(scanner, tree, repo_path, file_extensions)

\* len([issue for issue in compliance_issues if "error" not in issue])
IssuesCount(compliance_issues) ==
    Cardinality({i \in 1..Len(compliance_issues) : "error" \notin DOMAIN compliance_issues[i]})

\* the fallback branches of ai_scan_repository
BasicResponse(ai_enabled, tree) ==
    [status |-> "success", ai_enabled |-> ai_enabled,
     compliance_issues |-> AnalyzeRepositoryFiles(tree),
     issues_count |-> IssuesCount(AnalyzeRepositoryFiles(tree))]

\* ai_scan_repository, lines 168-208: the analysis fields of the response,
\* given what get_analyzer and the analyzer's scan returned
AiScanResponse(ai_enabled, use_ai, analyzer_available, ai_results, tree) ==
    IF ai_enabled /\ use_ai
    THEN IF analyzer_available
         THEN IF GetKey(ai_results, "status", None) = "success"
              THEN [status |-> "success", ai_enabled |-> ai_enabled,
                    compliance_issues |-> GetKey(ai_results, "compliance_issues", <<>>),
                    issues_count |-> IssuesCount(GetKey(ai_results, "compliance_issues", <<>>)),
                    analysis_summary |-> GetKey(ai_results, "summary", <<>>)]
              ELSE BasicResponse(ai_enabled, tree)
         ELSE BasicResponse(ai_enabled, tree)
    ELSE BasicResponse(ai_enabled, tree)

\* Requests are served by the threads of the server's pool (the handlers are
\* plain def functions).  get_analyzer is taken statement by statement: the
\* test of line 118, the construction and assignment of lines 121-124, the
\* return of line 128.
InitApi ==
    /\ fs \in Trees
    /\ global_analyzer = "none"
    /\ policy_processor = NoProcessor
    /\ repository_scanner = NoScanner
    /\ scan = [s \in ScanIds |-> IdleScan]
    /\ n_policy_ops = 0
    /\ n_scans = 0
    /\ agg = NoAgg
    /\ loading = NoLoading
    /\ \E ai_enabled \in BOOLEAN : api = [NoApi EXCEPT !.ai_enabled = ai_enabled]

\* the request arrives and the repository is cloned (lines 143-170)
AiScanReceive(r, use_ai) ==
    /\ api.request[r].pc = "idle"
    /\ api' = [api EXCEPT !.request[r].use_ai = use_ai,
                          !.request[r].pc = IF api.ai_enabled /\ use_ai THEN "test" ELSE "basic"]
    /\ UNCHANGED <<fs, global_analyzer, policy_processor, repository_scanner, scan, n_policy_ops, n_scans, agg, loading>>

\* if _global_analyzer is None and AI_ENABLED
GetAnalyzerTest(r) ==
    /\ api.request[r].pc = "test"
    /\ api' = [api EXCEPT !.request[r].pc = IF api.current = 0 /\ api.ai_enabled THEN "construct" ELSE "return"]
    /\ UNCHANGED <<fs, global_analyzer, policy_processor, repository_scanner, scan, n_policy_ops, n_scans, agg, loading>>

\* _global_analyzer = ComplianceAnalyzer(...)
GetAnalyzerConstruct(r, rules_json, processor_fails) ==
    /\ api.request[r].pc = "construct"
    /\ LET built == InitializePipelines(rules_json, processor_fails)
       IN /\ policy_processor' = built.policy_processor
          /\ repository_scanner' = built.repository_scanner
          /\ api' = [api EXCEPT !.constructed = @ + 1,
                                !.current = api.constructed + 1,
                                !.instances = Append(@, built),
                                !.request[r].pc = "return"]
    /\ global_analyzer' = "ready"
    /\ UNCHANGED <<fs, scan, n_policy_ops, n_scans, agg, loading>>

\* return _global_analyzer
GetAnalyzerReturn(r) ==
    /\ api.request[r].pc = "return"
    /\ api' = [api EXCEPT !.request[r].analyzer = api.current, !.request[r].pc = "analyze"]
    /\ UNCHANGED <<fs, global_analyzer, policy_processor, repository_scanner, scan, n_policy_ops, n_scans, agg, loading>>

\* what the analyzer a request holds returns for the cloned repository
AiResults(r) ==
    IF api.request[r].analyzer = 0 THEN <<>>
    ELSE AnalyzerScanRepository(api.instances[api.request[r].analyzer].repository_scanner,
                                fs, ExistingRoot, Extensions(ai_scan_extensions))

\* the analysis and the response (lines 177-222)
AiScanRespond(r) ==
    /\ api.request[r].pc \in {"analyze", "basic"}
    /\ api' = [api EXCEPT !.request[r].pc = "done",
                          !.request[r].response =
                              AiScanResponse(api.ai_enabled, api.request[r].use_ai,
                                             api.request[r].analyzer # 0, AiResults(r), fs)]
    /\ UNCHANGED <<fs, global_analyzer, policy_processor, repository_scanner, scan, n_policy_ops, n_scans, agg, loading>>

NextApi ==
    \/ \E r \in RequestIds, use_ai \in BOOLEAN : AiScanReceive(r, use_ai)
    \/ \E r \in RequestIds : GetAnalyzerTest(r)
    \/ \E r \in RequestIds, rules_json \in RulesJsonFiles : GetAnalyzerConstruct(r, rules_json, FALSE)
    \/ \E r \in RequestIds : GetAnalyzerConstruct(r, [shape |-> "dict", d |-> <<>>], TRUE)
    \/ \E r \in RequestIds : GetAnalyzerReturn(r)
    \/ \E r \in RequestIds : AiScanRespond(r)

SpecApi == InitApi /\ [][NextApi]_vars

\* ------------------------------------------------------------------ claims: vocabulary
\* the scans whose call is in, or has left, the file loop of an existing root
InLoop(s) == scan[s].pc = "scanning"
Returned(s) == scan[s].pc = "done"
\* scan_repository of the scanner returned the full result dict
ReturnedFull(s) == Returned(s) /\ "scan_summary" \in DOMAIN scan[s].results
\* scan_repository of the scanner returned the error dict
ReturnedError(s) == Returned(s) /\ repository_scanner.present /\ "error" \in DOMAIN scan[s].results

CheckedRuleIds(file_results) == [k \in 1..Len(file_results.compliance_checks) |-> file_results.compliance_checks[k].rule_id]

CannotBeRead(e) == e.is_dir \/ ~e.readable
UnreadableFile(e) == ~e.is_dir /\ ~e.readable

ResultKeys == {"violations", "scanned_files", "scan_summary", "compliance_score"}

\* ------------------------------------------------------------------ C1
\* C1: a scan checks every file against the rules that were active when it
\* started: all per-file compliance_checks lists of a scan name the same rule
\* ids, and as many of them as the result's rules_applied.
C1_OneRuleSetPerScan ==
    \A s \in ScanIds :
        (InLoop(s) \/ ReturnedFull(s)) =>
            \A i \in 1..Len(scan[s].results.scanned_files) :
                /\ CheckedRuleIds(scan[s].results.scanned_files[i]) = CheckedRuleIds(scan[s].results.scanned_files[1])
                /\ Len(scan[s].results.scanned_files[i].compliance_checks) = scan[s].results.rules_applied

\* ------------------------------------------------------------------ C2
\* C2: every discovered file that cannot be opened or read has a scan_error
\* violation of severity LOW for its path in the returned violation list.
C2_UnreadableFileRecorded ==
    \A s \in ScanIds :
        ReturnedFull(s) =>
            \A i \in 1..Len(scan[s].code_files) :
                UnreadableFile(scan[s].code_files[i]) =>
                    \E v \in 1..Len(scan[s].results.violations) :
                        /\ scan[s].results.violations[v].file_path = PathOf(scan[s].code_files[i])
                        /\ scan[s].results.violations[v].violation_type = "scan_error"
                        /\ scan[s].results.violations[v].severity = "LOW"

\* ------------------------------------------------------------------ C3
\* what C3 says of a returned scan of an existing root: the full result, no
\* error, every discovered file visited, one scanned_files entry per
\* discovered file that could be read, in discovery order
C3_ReturnedComplete ==
    \A s \in ScanIds :
        (Returned(s) /\ repository_scanner.present /\ scan[s].repo_path = ExistingRoot) =>
            /\ ResultKeys \subseteq DOMAIN scan[s].results
            /\ "error" \notin DOMAIN scan[s].results
            /\ scan[s].next = Len(scan[s].code_files) + 1
            /\ scan[s].results.scan_summary.total_files_scanned = Len(scan[s].results.scanned_files)
            /\ LET read == SelectSeq(scan[s].code_files, LAMBDA e : ~CannotBeRead(e))
               IN [i \in 1..Len(scan[s].results.scanned_files) |-> scan[s].results.scanned_files[i].file_path]
                    = [i \in 1..Len(read) |-> PathOf(read[i])]

\* what C3 says of one pass of the file loop: a file that could be read gets
\* its scanned_files entry, with a compliance_checks entry for every rule the
\* scanner holds, whether or not applying the rule raised
C3_FileStep ==
    \A s \in ScanIds :
        (InLoop(s) /\ scan'[s].next = scan[s].next + 1 /\ ~CannotBeRead(scan[s].code_files[scan[s].next])) =>
            /\ InLoop(s)'
            /\ Len(scan'[s].results.scanned_files) = Len(scan[s].results.scanned_files) + 1
            /\ LET added == scan'[s].results.scanned_files[Len(scan'[s].results.scanned_files)]
               IN /\ added.file_path = PathOf(scan[s].code_files[scan[s].next])
                  /\ CheckedRuleIds(added) = DictKeys(repository_scanner.compliance_rules)

\* C3: no failure while reading a file or applying a rule aborts a scan of an
\* existing root: it returns the full result, after every discovered file was
\* visited, with every readable file in scanned_files and checked against
\* every rule, the raising ones included.
C3_NoFailureAbortsScan == [](C3_ReturnedComplete) /\ [][C3_FileStep]_vars

\* a returned scan that met an unreadable file and a rule that raised, and
\* still lists that rule for a scanned file
C3_Witness ==
    \E s \in ScanIds :
        /\ ReturnedFull(s)
        /\ \E i \in 1..Len(scan[s].code_files) : UnreadableFile(scan[s].code_files[i])
        /\ \E i \in 1..Len(scan[s].code_files), k \in 1..Len(repository_scanner.compliance_rules) :
              /\ ~CannotBeRead(scan[s].code_files[i])
              /\ ApplyRuleBody(scan[s].code_files[i].content, PathOf(scan[s].code_files[i]), repository_scanner.compliance_rules[k][2]).exc
              /\ \E f \in 1..Len(scan[s].results.scanned_files) :
                    /\ scan[s].results.scanned_files[f].file_path = PathOf(scan[s].code_files[i])
                    /\ \E c \in 1..Len(scan[s].results.scanned_files[f].compliance_checks) :
                          scan[s].results.scanned_files[f].compliance_checks[c].rule_id = repository_scanner.compliance_rules[k][1]

\* ------------------------------------------------------------------ C4
\* C4: for a root that does not exist the scanner returns an error value with
\* none of violations, scanned_files, scan_summary, compliance_score; for an
\* existing root with no matching file it returns a result with all four and
\* no "error": the two are told apart by the "error" key.
C4_MissingRootIsAnError ==
    \A s \in ScanIds :
        (Returned(s) /\ repository_scanner.present) =>
            /\ scan[s].repo_path # ExistingRoot =>
                  /\ "error" \in DOMAIN scan[s].results
                  /\ ResultKeys \cap DOMAIN scan[s].results = {}
            /\ (scan[s].repo_path = ExistingRoot /\ scan[s].code_files = <<>>) =>
                  /\ "error" \notin DOMAIN scan[s].results
                  /\ ResultKeys \subseteq DOMAIN scan[s].results
                  /\ scan[s].results.scanned_files = <<>>

\* the scanner has returned from a scan of a root that does not exist
C4_Witness ==
    \E s \in ScanIds : ReturnedError(s) /\ scan[s].repo_path # ExistingRoot

\* ------------------------------------------------------------------ C5
\* the producer's get_compliance_rules_for_scanning raises, or returns rules
\* the scanner cannot key
ProducerFails(pp) ==
    /\ pp.present
    /\ \/ GetComplianceRulesForScanning(pp).exc
       \/ \E i \in 1..Len(GetComplianceRulesForScanning(pp).rules) : GetComplianceRulesForScanning(pp).rules[i].rule_id = Missing

HoldsDefaultRuleSet(scanner) ==
    /\ scanner.present
    /\ DictKeys(scanner.compliance_rules) = <<"security_001", "data_001", "logging_001">>
    /\ [i \in 1..Len(scanner.compliance_rules) |-> scanner.compliance_rules[i][2].severity] = <<"HIGH", "HIGH", "MEDIUM">>

\* C5: once the analyzer is built, a scanner exists and holds the default
\* RuleSet whenever no rule producer was supplied or the supplied producer
\* fails; a failing producer never costs the scanner.
C5_FallbackToDefaultRules ==
    (global_analyzer = "ready" /\ (~policy_processor.present \/ ProducerFails(policy_processor))) =>
        HoldsDefaultRuleSet(repository_scanner)

\* ------------------------------------------------------------------ C6
\* C6: a scanner whose producer returns N >= 1 rules holds all N under
\* distinct rule ids, and the producer's category index unchanged.
C6_ProducerRulesVerbatim ==
    (repository_scanner.present /\ policy_processor.present /\ ~ProducerFails(policy_processor)
        /\ Len(GetComplianceRulesForScanning(policy_processor).rules) >= 1) =>
        /\ Len(repository_scanner.compliance_rules) = Len(GetComplianceRulesForScanning(policy_processor).rules)
        /\ Cardinality(Range(DictKeys(repository_scanner.compliance_rules))) = Len(GetComplianceRulesForScanning(policy_processor).rules)
        /\ \A i \in 1..Len(GetComplianceRulesForScanning(policy_processor).rules) :
              GetComplianceRulesForScanning(policy_processor).rules[i] \in Range(DictValues(repository_scanner.compliance_rules))
        /\ repository_scanner.scan_patterns = GetComplianceRulesForScanning(policy_processor).scan_patterns

\* ------------------------------------------------------------------ C7
\* the scan patterns of the scanner's rules of one category
PatternsOfCategory(scanner, c) ==
    UNION {Range(scanner.compliance_rules[i][2].scan_patterns) :
             i \in {j \in 1..Len(scanner.compliance_rules) : Get(scanner.compliance_rules[j][2].category, "general") = c}}

\* C7: in every RuleSet the scanner holds, the category index lists for each
\* category exactly the patterns of the rules of that category, each once.
C7_IndexIsUnionOfRulePatterns ==
    repository_scanner.present =>
        /\ DOMAIN repository_scanner.scan_patterns =
              {Get(repository_scanner.compliance_rules[i][2].category, "general") : i \in 1..Len(repository_scanner.compliance_rules)}
        /\ \A c \in DOMAIN repository_scanner.scan_patterns :
              /\ BagToSet(repository_scanner.scan_patterns[c]) = PatternsOfCategory(repository_scanner, c)
              /\ \A x \in BagToSet(repository_scanner.scan_patterns[c]) : CopiesIn(x, repository_scanner.scan_patterns[c]) = 1

\* ------------------------------------------------------------------ C8
UnderGit(file_path) == ".git" \in Range(file_path.dir)

\* C8: no file below a directory named .git is in scanned_files or has a
\* violation.
C8_GitDirectoryNotScanned ==
    \A s \in ScanIds :
        (InLoop(s) \/ ReturnedFull(s)) =>
            /\ \A i \in 1..Len(scan[s].results.scanned_files) : ~UnderGit(scan[s].results.scanned_files[i].file_path)
            /\ \A v \in 1..Len(scan[s].results.violations) : ~UnderGit(scan[s].results.violations[v].file_path)

\* ------------------------------------------------------------------ C9
DistinctViolationPaths(results) == {results.violations[v].file_path : v \in 1..Len(results.violations)}

\* C9: in every returned result files_with_violations, the number of distinct
\* paths in the violation list, is at most total_files_scanned, the number of
\* scanned_files entries, and violation_rate, their quotient over
\* max(total_files_scanned, 1), lies in [0, 1].
C9_FilesWithViolationsBounded ==
    \A s \in ScanIds :
        ReturnedFull(s) =>
            LET summary == scan[s].results.scan_summary
            IN /\ summary.files_with_violations = Cardinality(DistinctViolationPaths(scan[s].results))
               /\ summary.total_files_scanned = Len(scan[s].results.scanned_files)
               /\ summary.files_with_violations <= summary.total_files_scanned
               /\ summary.violation_rate[1] = summary.files_with_violations
               /\ summary.violation_rate[2] = Max2(summary.total_files_scanned, 1)
               /\ 0 <= summary.violation_rate[1]
               /\ summary.violation_rate[1] <= summary.violation_rate[2]

\* a returned scan that met an unreadable file and found violations
C9_Witness ==
    \E s \in ScanIds :
        /\ ReturnedFull(s)
        /\ \E i \in 1..Len(scan[s].code_files) : UnreadableFile(scan[s].code_files[i])
        /\ scan[s].results.scan_summary.files_with_violations >= 1

\* ------------------------------------------------------------------ C10
\* the violations of a list whose severity is sev
NumWithSeverity(violations, sevs) == Cardinality({v \in 1..Len(violations) : violations[v].severity \in sevs})
NumOtherSeverity(violations) == Cardinality({v \in 1..Len(violations) : violations[v].severity \notin {"HIGH", "MEDIUM", "LOW"}})

\* W: 3 per HIGH, 2 per MEDIUM, 1 per LOW, 1 per other or missing severity
WeightedSum(violations) ==
    3 * NumWithSeverity(violations, {"HIGH"}) + 2 * NumWithSeverity(violations, {"MEDIUM"})
      + NumWithSeverity(violations, {"LOW"}) + NumOtherSeverity(violations)

\* C10: for n >= 1 scanned files the score is max(0, 1 - W / (10 n)) rounded
\* to three decimals: it lies in [0, 1], is the thousandth nearest to
\* 1 - W / (10 n) when W < 10 n, is 0 when W >= 10 n, and is 0.7 for one HIGH
\* violation and n = 1.  The score is held in thousandths.
C10_ScoreFormula ==
    (agg.pc = "computed" /\ Len(agg.results.scanned_files) >= 1) =>
        LET n == Len(agg.results.scanned_files)
            W == WeightedSum(agg.results.violations)
            score == agg.compliance_score
        IN /\ 0 <= score /\ score <= 1000
           /\ W >= 10 * n => score = 0
           /\ W < 10 * n =>
                 /\ 2 * (score * 10 * n - 1000 * (10 * n - W)) <= 10 * n
                 /\ 2 * (1000 * (10 * n - W) - score * 10 * n) <= 10 * n
           /\ (n = 1 /\ Len(agg.results.violations) = 1 /\ agg.results.violations[1].severity = "HIGH") => score = 700

\* a score strictly between 0 and 1 computed from a list holding a violation
\* of an unknown and one of a missing severity
C10_Witness ==
    /\ agg.pc = "computed"
    /\ Len(agg.results.scanned_files) >= 1
    /\ \E v \in 1..Len(agg.results.violations) : agg.results.violations[v].severity = "CRITICAL"
    /\ \E v \in 1..Len(agg.results.violations) : agg.results.violations[v].severity = Missing
    /\ \E v \in 1..Len(agg.results.violations) : agg.results.violations[v].severity = "HIGH"
    /\ agg.compliance_score > 0 /\ agg.compliance_score < 1000

\* ------------------------------------------------------------------ C11
\* C11: a scan of an existing root that scanned no file returns the full
\* result with compliance_score 0.0, no violation, and violation_rate 0 / 1.
C11_ZeroFileScan ==
    \A s \in ScanIds :
        (Returned(s) /\ repository_scanner.present /\ scan[s].repo_path = ExistingRoot
            /\ \A i \in 1..Len(scan[s].code_files) : CannotBeRead(scan[s].code_files[i])) =>
            /\ ResultKeys \subseteq DOMAIN scan[s].results
            /\ "error" \notin DOMAIN scan[s].results
            /\ scan[s].results.scanned_files = <<>>
            /\ scan[s].results.violations = <<>>
            /\ scan[s].results.compliance_score = 0
            /\ scan[s].results.scan_summary.total_files_scanned = 0
            /\ scan[s].results.scan_summary.files_with_violations = 0
            /\ scan[s].results.scan_summary.violation_rate = <<0, 1>>

\* a zero-file scan returned by a scanner that holds rules
C11_Witness ==
    \E s \in ScanIds :
        /\ ReturnedFull(s)
        /\ scan[s].repo_path = ExistingRoot
        /\ scan[s].results.scanned_files = <<>>
        /\ scan[s].results.rules_applied >= 3

IsAnalysisViolation(v) == v.function_name # <<>> \/ v.imported_module # <<>>

\* the place of a rule id in the scanner's rule iteration order
RuleIndex(rule_id) ==
    CHOOSE k \in 1..Len(repository_scanner.compliance_rules) : repository_scanner.compliance_rules[k][1] = rule_id

\* the place in its rule's scan_patterns of the pattern a match came from
PatternIndex(v) ==
    LET patterns == repository_scanner.compliance_rules[RuleIndex(v.rule_id)][2].scan_patterns
    IN CHOOSE i \in 1..Len(patterns) :
          /\ IsStringPattern(patterns[i]) /\ LowerStr(patterns[i]) = LowerStr(v.matched_text)
          /\ \A j \in 1..(i - 1) : ~(IsStringPattern(patterns[j]) /\ LowerStr(patterns[j]) = LowerStr(v.matched_text))

\* rule, then matches before analyses, then pattern, line, column
OrderKey(v) ==
    IF IsAnalysisViolation(v) THEN <<RuleIndex(v.rule_id), 1, 0, 0, 0>>
    ELSE <<RuleIndex(v.rule_id), 0, PatternIndex(v), v.line_number, v.column_start>>

LexLeq(a, b) == a = b \/ \E k \in 1..Len(a) : a[k] < b[k] /\ \A j \in 1..(k - 1) : a[j] = b[j]

\* the files of a scan that were read, in discovery order
ReadSoFar(s) == SelectSeq(SubSeq(scan[s].code_files, 1, scan[s].next - 1), LAMBDA e : ~CannotBeRead(e))

C13_Ordered ==
    \A s \in ScanIds :
        (InLoop(s) \/ ReturnedFull(s)) =>
            /\ [i \in 1..Len(scan[s].results.scanned_files) |-> scan[s].results.scanned_files[i].file_path]
                  = [i \in 1..Len(ReadSoFar(s)) |-> PathOf(ReadSoFar(s)[i])]
            /\ scan[s].results.violations
                  = Flatten([i \in 1..Len(scan[s].results.scanned_files) |-> scan[s].results.scanned_files[i].violations])
            /\ \A i \in 1..Len(scan[s].results.scanned_files) :
                  LET vs == scan[s].results.scanned_files[i].violations
                  IN \A j \in 1..(Len(vs) - 1) : LexLeq(OrderKey(vs[j]), OrderKey(vs[j + 1]))

C13_AppendOnly ==
    \A s \in ScanIds :
        InLoop(s) =>
            /\ Len(scan[s].results.violations) <= Len(scan'[s].results.violations)
            /\ SubSeq(scan'[s].results.violations, 1, Len(scan[s].results.violations)) = scan[s].results.violations

\* C13: the violation list is the per-file lists in discovery order; within a
\* file violations follow rule order, within a rule the pattern matches come
\* first, by pattern, line and column, and the analysis violations last; a
\* step of a scan only appends to the list.
C13_ViolationsOrdered == [](C13_Ordered) /\ [][C13_AppendOnly]_vars

\* a returned scan with two files holding violations, in one of which a
\* match of an earlier pattern on a later line precedes a match of a later
\* pattern on an earlier line
C13_Witness ==
    \E s \in ScanIds :
        /\ ReturnedFull(s)
        /\ Cardinality(DistinctViolationPaths(scan[s].results)) >= 2
        /\ \E i \in 1..Len(scan[s].results.scanned_files) :
              LET vs == scan[s].results.scanned_files[i].violations
              IN \E j \in 1..(Len(vs) - 1) :
                    /\ vs[j].rule_id = vs[j + 1].rule_id
                    /\ ~IsAnalysisViolation(vs[j]) /\ ~IsAnalysisViolation(vs[j + 1])
                    /\ vs[j].line_number > vs[j + 1].line_number

\* ------------------------------------------------------------------ C14
\* every pattern of the rule is a string that re.compile, or its literal
\* fallback, accepts
RuleCompiles(rule) ==
    \A i \in 1..Len(rule.scan_patterns) :
        IsStringPattern(rule.scan_patterns[i]) /\ ~Contains(rule.scan_patterns[i], RepeatTooLarge)

\* a marker of comment_markers lies wholly before column c of the line
MarkerBefore(line, c) ==
    \E m \in 1..Len(comment_markers), i \in 0..c :
        i + Len(comment_markers[m]) <= c /\ OccursAt(line, comment_markers[m], i)

\* the file's violations of one rule
ViolationsOfRule(file_results, rule_id) == SelectSeq(file_results.violations, LAMBDA v : v.rule_id = rule_id)

MatchesAt(file_results, rule_id, n, c, literal) ==
    SelectSeq(file_results.violations,
              LAMBDA v : /\ v.rule_id = rule_id /\ ~IsAnalysisViolation(v)
                         /\ v.line_number = n /\ v.column_start = c
                         /\ LowerStr(v.matched_text) = literal)

\* C15: an occurrence of a pattern at column c of a line is a violation, and
\* only one, exactly when no comment marker lies in the line before column c;
\* so the line  # password = "x"  has no violation for password and the line
\* password = "x"  has exactly one.
C15_CommentSuppressionIsLineLocal ==
    \A s \in ScanIds :
        (InLoop(s) \/ ReturnedFull(s)) =>
            \A i \in 1..Len(scan[s].results.scanned_files), k \in 1..Len(repository_scanner.compliance_rules) :
                LET content == ReadSoFar(s)[i].content
                    rule == repository_scanner.compliance_rules[k][2]
                    file_results == scan[s].results.scanned_files[i]
                IN RuleCompiles(rule) =>
                      \A p \in 1..Len(rule.scan_patterns), n \in 1..Len(content.lines) :
                          LET literal == LowerStr(rule.scan_patterns[p])
                              line == content.lines[n]
                              found == {c \in 0..Len(line) : MatchesAt(file_results, rule.rule_id, n, c, literal) # <<>>}
                          IN /\ \A c \in 0..Len(line) :
                                   Len(MatchesAt(file_results, rule.rule_id, n, c, literal))
                                      = IF OccursAt(LowerStr(line), literal, c) /\ ~MarkerBefore(line, c)
                                        THEN 1 ELSE 0
                             /\ (line = Content_comment.lines[1] /\ literal = W_password) => Cardinality(found) = 0
                             /\ (line = Content_comment.lines[2] /\ literal = W_password) => Cardinality(found) = 1

\* a scanned file with the commented line, the uncommented line matched at
\* column 0, and a match that a marker follows
C15_Witness ==
    \E s \in ScanIds :
        /\ ReturnedFull(s)
        /\ \E i \in 1..Len(scan[s].results.scanned_files) :
              /\ ReadSoFar(s)[i].content = Content_comment
              /\ MatchesAt(scan[s].results.scanned_files[i], "security_001", 2, 0, W_password) # <<>>
              /\ MatchesAt(scan[s].results.scanned_files[i], "security_001", 3, 0, W_pwd) # <<>>
              /\ MatchesAt(scan[s].results.scanned_files[i], "security_001", 1, 2, W_password) = <<>>

\* ------------------------------------------------------------------ C16
\* C16: a rule one of whose patterns is a string that re.compile rejects
\* loses nothing: in every scanned file every uncommented occurrence of each
\* of its patterns, the rejected one taken literally, is a violation.
C16_InvalidRegexMatchedLiterally ==
    \A s \in ScanIds :
        (InLoop(s) \/ ReturnedFull(s)) =>
            \A i \in 1..Len(scan[s].results.scanned_files), k \in 1..Len(repository_scanner.compliance_rules) :
                LET content == ReadSoFar(s)[i].content
                    rule == repository_scanner.compliance_rules[k][2]
                    file_results == scan[s].results.scanned_files[i]
                    rejected == {p \in 1..Len(rule.scan_patterns) :
                                    \/ ~IsValidRegex(rule.scan_patterns[p])
                                    \/ Contains(rule.scan_patterns[p], RepeatTooLarge)}
                IN ((\A p \in 1..Len(rule.scan_patterns) : IsStringPattern(rule.scan_patterns[p])) /\ rejected # {}) =>
                      \A p \in 1..Len(rule.scan_patterns), n \in 1..Len(content.lines) :
                          \A c \in 0..Len(content.lines[n]) :
                              (OccursAt(LowerStr(content.lines[n]), LowerStr(rule.scan_patterns[p]), c)
                                  /\ ~MarkerBefore(content.lines[n], c)) =>
                                  MatchesAt(file_results, rule.rule_id, n, c, LowerStr(rule.scan_patterns[p])) # <<>>

\* ------------------------------------------------------------------ C17
\* C17: every scanned file's compliance_checks names each rule of the RuleSet
\* once, in rule order, clean rules included; an entry's violations_found is
\* the number of the file's violations of that rule, and the entries sum to
\* the length of the file's violation list.
C17_OneCheckPerRule ==
    \A s \in ScanIds :
        (InLoop(s) \/ ReturnedFull(s)) =>
            \A i \in 1..Len(scan[s].results.scanned_files) :
                LET file_results == scan[s].results.scanned_files[i]
                    checks == file_results.compliance_checks
                IN /\ CheckedRuleIds(file_results) = DictKeys(repository_scanner.compliance_rules)
                   /\ \A k \in 1..Len(checks) :
                         /\ checks[k].violations_found = Len(ViolationsOfRule(file_results, checks[k].rule_id))
                         /\ checks[k].category = Get(repository_scanner.compliance_rules[k][2].category, "unknown")
                   /\ SumSeq([k \in 1..Len(checks) |-> checks[k].violations_found]) = Len(file_results.violations)

\* a scanned file with a clean rule and a rule that found two violations
C17_Witness ==
    \E s \in ScanIds :
        /\ ReturnedFull(s)
        /\ \E i \in 1..Len(scan[s].results.scanned_files) :
              LET checks == scan[s].results.scanned_files[i].compliance_checks
              IN /\ Len(checks) >= 3
                 /\ \E k \in 1..Len(checks) : checks[k].violations_found = 0
                 /\ \E k \in 1..Len(checks) : checks[k].violations_found >= 2

\* ------------------------------------------------------------------ C18
\* the sum of a breakdown's counts over the buckets S
RECURSIVE SumOver(_, _)
SumOver(f, S) == IF S = {} THEN 0 ELSE LET x == CHOOSE x \in S : TRUE IN f[x] + SumOver(f, S \ {x})

\* C18: in every returned summary each severity bucket holds the number of
\* violations of that severity and each category bucket the number of
\* violations of that category; both breakdowns sum to total_violations;
\* HIGH, MEDIUM and LOW are always present; another severity has a bucket of
\* its own; a category bucket is never 0.
C18_BreakdownsPartitionViolations ==
    \A s \in ScanIds :
        ReturnedFull(s) =>
            LET violations == scan[s].results.violations
                summary == scan[s].results.scan_summary
                sev == summary.severity_breakdown
                cat == summary.category_breakdown
            IN /\ summary.total_violations = Len(violations)
               /\ {"HIGH", "MEDIUM", "LOW"} \subseteq DOMAIN sev
               /\ DOMAIN sev = {"HIGH", "MEDIUM", "LOW"} \cup {violations[v].severity : v \in 1..Len(violations)}
               /\ \A x \in DOMAIN sev : sev[x] = NumWithSeverity(violations, {x})
               /\ SumOver(sev, DOMAIN sev) = summary.total_violations
               /\ DOMAIN cat = {violations[v].category : v \in 1..Len(violations)}
               /\ \A x \in DOMAIN cat :
                     /\ cat[x] = Cardinality({v \in 1..Len(violations) : violations[v].category = x})
                     /\ cat[x] > 0
               /\ SumOver(cat, DOMAIN cat) = summary.total_violations

\* a returned summary with a CRITICAL bucket, an empty HIGH bucket and two
\* categories
C18_Witness ==
    \E s \in ScanIds :
        /\ ReturnedFull(s)
        /\ "CRITICAL" \in DOMAIN scan[s].results.scan_summary.severity_breakdown
        /\ \E x \in {"HIGH", "MEDIUM", "LOW"} : scan[s].results.scan_summary.severity_breakdown[x] = 0
        /\ Cardinality(DOMAIN scan[s].results.scan_summary.category_breakdown) >= 2

\* ------------------------------------------------------------------ C19
\* the partial result of the files whose path is in P
Shard(results, P) ==
    [violations |-> SelectSeq(results.violations, LAMBDA v : v.file_path \in P),
     scanned_files |-> SelectSeq(results.scanned_files, LAMBDA f : f.file_path \in P)]

\* a list with the elements at i and i + 1 exchanged
SwapAt(seq, i) == [j \in 1..Len(seq) |-> IF j = i THEN seq[i + 1] ELSE IF j = i + 1 THEN seq[i] ELSE seq[j]]

\* a breakdown's count for a bucket, 0 when the bucket is absent
BucketOf(breakdown, x) == IF x \in DOMAIN breakdown THEN breakdown[x] ELSE 0

\* C19: the summary and the score do not change when two neighbouring
\* violations or two neighbouring scanned files are exchanged, and for every
\* distribution of the scanned files over three shards the counts of the
\* whole are the sums of the shards' counts and the score of the whole is
\* the score of the summed weights and file counts.
C19_AggregationIsAdditive ==
    \A s \in ScanIds :
        ReturnedFull(s) =>
            LET results == scan[s].results
                whole == results.scan_summary
                paths == {results.scanned_files[i].file_path : i \in 1..Len(results.scanned_files)}
            IN /\ \A i \in 1..(Len(results.violations) - 1) :
                     LET swapped == [results EXCEPT !.violations = SwapAt(@, i)]
                     IN /\ CalculateScanSummary(swapped) = whole
                        /\ CalculateComplianceScore(swapped) = results.compliance_score
               /\ \A i \in 1..(Len(results.scanned_files) - 1) :
                     LET swapped == [results EXCEPT !.scanned_files = SwapAt(@, i)]
                     IN /\ CalculateScanSummary(swapped) = whole
                        /\ CalculateComplianceScore(swapped) = results.compliance_score
               /\ \A f \in [paths -> 1..3] :
                     LET shard == [k \in 1..3 |-> Shard(results, {p \in paths : f[p] = k})]
                         part == [k \in 1..3 |-> CalculateScanSummary(shard[k])]
                         W == SumSeq([k \in 1..3 |-> WeightedSum(shard[k].violations)])
                         n == SumSeq([k \in 1..3 |-> part[k].total_files_scanned])
                     IN /\ whole.total_violations = SumSeq([k \in 1..3 |-> part[k].total_violations])
                        /\ whole.files_with_violations = SumSeq([k \in 1..3 |-> part[k].files_with_violations])
                        /\ whole.total_files_scanned = n
                        /\ \A k \in 1..3 : DOMAIN part[k].category_breakdown \subseteq DOMAIN whole.category_breakdown
                        /\ \A k \in 1..3 : DOMAIN part[k].severity_breakdown \subseteq DOMAIN whole.severity_breakdown
                        /\ \A x \in DOMAIN whole.severity_breakdown :
                              whole.severity_breakdown[x] = SumSeq([k \in 1..3 |-> BucketOf(part[k].severity_breakdown, x)])
                        /\ \A x \in DOMAIN whole.category_breakdown :
                              whole.category_breakdown[x] = SumSeq([k \in 1..3 |-> BucketOf(part[k].category_breakdown, x)])
                        /\ WeightedSum(results.violations) = W
                        /\ results.compliance_score
                              = IF n = 0 THEN 0
                                ELSE RoundHalfEven(1000 * Max2(0, MaxViolationsPerFile * n - W), MaxViolationsPerFile * n)

\* a returned scan of two files with violations, three or more in all
C19_Witness ==
    \E s \in ScanIds :
        /\ ReturnedFull(s)
        /\ Cardinality(DistinctViolationPaths(scan[s].results)) >= 2
        /\ Len(scan[s].results.violations) >= 3
        /\ Len(scan[s].results.scanned_files) >= 2

\* ------------------------------------------------------------------ C20
\* C20: the walk of a scan yields exactly the regular files of the tree whose
\* name ends in one of the extensions, each once and no directory, and
\* total_files_scanned is the number of those that can be read.
C20_WalkIsExact ==
    \A s \in ScanIds :
        ReturnedFull(s) =>
            LET code_files == scan[s].code_files
                matching == {e \in Range(fs) :
                                ~e.is_dir /\ \E x \in 1..Len(scan[s].file_extensions) :
                                                EndsWith(e.name, scan[s].file_extensions[x])}
            IN /\ \A i \in 1..Len(code_files) : ~code_files[i].is_dir
               /\ \A i, j \in 1..Len(code_files) : i # j => PathOf(code_files[i]) # PathOf(code_files[j])
               /\ Range(code_files) = matching
               /\ scan[s].results.scan_summary.total_files_scanned
                     = Cardinality({e \in matching : e.readable})

\* ------------------------------------------------------------------ C21
\* the repository of two files, one holding DATABASE_PASSWORD = "admin123",
\* the other clean, scanned with the default extensions
SecretAndCleanScan(s) ==
    /\ Len(fs) = 2
    /\ {fs[1].content, fs[2].content} = {Content_secret, Content_clean}
    /\ \A i \in 1..2 : ~CannotBeRead(fs[i])
    /\ ReturnedFull(s)
    /\ scan[s].file_extensions = default_file_extensions
    /\ HoldsDefaultRuleSet(repository_scanner)

\* C21: with the default RuleSet, the scan of two files, one holding
\* DATABASE_PASSWORD = "admin123" and the other clean, reports exactly one
\* violation, of severity HIGH and category security, with
\* files_with_violations = 1 and total_files_scanned = 2.
C21_EndToEndDefaultRules ==
    \A s \in ScanIds :
        SecretAndCleanScan(s) =>
            LET r == scan[s].results
            IN /\ Len(r.violations) = 1
               /\ r.violations[1].severity = "HIGH"
               /\ r.violations[1].category = "security"
               /\ r.violations[1].line_number = 1
               /\ r.scan_summary.total_violations = 1
               /\ r.scan_summary.files_with_violations = 1
               /\ r.scan_summary.total_files_scanned = 2

C21_Witness ==
    /\ SecretAndCleanScan("s1")
    /\ Len(scan["s1"].results.violations) = 1
    /\ scan["s1"].results.violations[1].rule_id = "security_001"

\* ------------------------------------------------------------------ C22
\* the producer the analyzer holds, and the producers freshly started on each
\* of the stored rule files
CandidateProducers == {policy_processor} \cup {NewPolicyProcessor(rules_json) : rules_json \in RulesJsonFiles}

\* C22: reloading is idempotent.  On the scanner as it stands, one call of
\* _load_compliance_rules and two calls in a row against the same producer
\* leave the same RuleSet, and that RuleSet is the one a scanner that held
\* nothing would load: nothing of the previous RuleSet survives.
C22_ReloadIsIdempotent ==
    repository_scanner.present =>
        \A pp \in CandidateProducers :
            LET once == LoadComplianceRules(repository_scanner, pp)
                twice == LoadComplianceRules(once.scanner, pp)
                fresh == LoadComplianceRules([repository_scanner EXCEPT !.compliance_rules = <<>>, !.scan_patterns = <<>>], pp)
            IN ~once.exc => /\ ~twice.exc
                            /\ twice.scanner = once.scanner
                            /\ once.scanner = fresh.scanner

\* a scanner reloaded after a policy operation, holding rules, for which some
\* producer would load a RuleSet without one of the rule ids held now
C22_Witness ==
    /\ repository_scanner.present
    /\ repository_scanner.has_processor
    /\ n_policy_ops >= 1
    /\ repository_scanner.compliance_rules # <<>>
    /\ \E pp \in CandidateProducers :
          LET once == LoadComplianceRules(repository_scanner, pp)
          IN /\ ~once.exc
             /\ \E k \in Range(DictKeys(repository_scanner.compliance_rules)) :
                   k \notin Range(DictKeys(once.scanner.compliance_rules))

\* ------------------------------------------------------------------ C23
\* the values of the report's lines that carry the given text, in order
ReportValues(report, text) ==
    LET rows == SelectSeq(report, LAMBDA line : line.text = text)
    IN [i \in 1..Len(rows) |-> rows[i].value]

\* C23: get_scan_report is pure.  It leaves the results it is given
\* unchanged; the severity rows are HIGH, MEDIUM, LOW in that order with the
\* summary's counts; the violations listed are the first min(10, number of
\* HIGH violations) HIGH violations in the order of the results, and no
\* violation of another severity.
C23_ReportIsPure ==
    /\ [](agg.pc = "reported" =>
            LET violations == agg.results.violations
                high == SelectSeq(violations, LAMBDA v : v.severity = "HIGH")
                n == IF Len(high) < 10 THEN Len(high) ELSE 10
                counts == agg.results.scan_summary.severity_breakdown
            IN /\ ReportValues(agg.report, "  severity: ") =
                      << <<"HIGH", counts["HIGH"]>>, <<"MEDIUM", counts["MEDIUM"]>>, <<"LOW", counts["LOW"]>> >>
               /\ ReportValues(agg.report, "  Line: ") = [i \in 1..n |-> high[i].line_number]
               /\ Len(ReportValues(agg.report, "  File: ")) = n)
    /\ [][agg'.pc = "reported" => agg'.results = agg.results]_vars

\* a report of results with a LOW violation followed by eleven HIGH ones
C23_Witness ==
    /\ agg.pc = "reported"
    /\ agg.results.violations # <<>>
    /\ agg.results.violations[1].severity = "LOW"
    /\ Cardinality({i \in 1..Len(agg.results.violations) : agg.results.violations[i].severity = "HIGH"}) > 10
    /\ Len(ReportValues(agg.report, "  Line: ")) = 10

\* ------------------------------------------------------------------ C24
\* C24: a scan never runs on an empty RuleSet because the producer is
\* empty: while a supplied producer returns zero rules, the scanner holds the
\* default RuleSet and every scan applies at least one rule.
C24_EmptyProducerUsesDefaults ==
    \A s \in ScanIds :
        (/\ InLoop(s) \/ ReturnedFull(s)
         /\ policy_processor.present
         /\ ~ProducerFails(policy_processor)
         /\ GetComplianceRulesForScanning(policy_processor).rules = <<>>) =>
            /\ HoldsDefaultRuleSet(repository_scanner)
            /\ scan[s].results.rules_applied >= 1

\* ------------------------------------------------------------------ C25
\* the policies a step processed with a new outcome: those with a rule the
\* producer did not hold, under the same key, before the step
NewlyProcessed ==
    {policy_id \in PolicyIds :
        \E k \in 1..Len(policy_processor'.compliance_rules.d) :
            /\ policy_processor'.compliance_rules.d[k][1][1] = policy_id
            /\ policy_processor'.compliance_rules.d[k] \notin Range(policy_processor.compliance_rules.d)}

\* the rules the latest processing of a policy generated, as the producer
\* holds them after the step
RulesOfLatestProcessing(policy_id) ==
    LET d == policy_processor'.compliance_rules.d
        recorded == policy_processor'.processed_policies
        ids == UNION {Range(recorded[j][2]) : j \in {i \in 1..Len(recorded) : recorded[i][1] = policy_id}}
    IN {d[k][2] : k \in {i \in 1..Len(d) : d[i][1][1] = policy_id /\ d[i][1][2] \in ids}}

\* C25: when import_policies or process_single_policy has changed the
\* producer's rules and returns, the scanner has been reloaded from the
\* producer's state after the change, and holds the rules of the newly
\* processed policies, so that a scan started afterwards applies them.
C25_ScannerFollowsProducer ==
    [][(/\ n_policy_ops' # n_policy_ops
        /\ policy_processor'.compliance_rules # policy_processor.compliance_rules
        /\ repository_scanner.present) =>
           /\ ~LoadComplianceRules(repository_scanner, policy_processor').exc
           /\ repository_scanner' = LoadComplianceRules(repository_scanner, policy_processor').scanner
           /\ \A policy_id \in NewlyProcessed :
                 RulesOfLatestProcessing(policy_id) \subseteq Range(DictValues(repository_scanner'.compliance_rules))]_vars

\* ------------------------------------------------------------------ C26
\* the states a producer can be in after at most n policy operations
RECURSIVE ProducersAfter(_)
ProducersAfter(n) ==
    IF n = 0 THEN {NewPolicyProcessor(rules_json) : rules_json \in RulesJsonFiles}
    ELSE LET before == ProducersAfter(n - 1)
         IN before
            \cup {ProcessPolicy(pp, policy_id, policy_content) :
                     pp \in before, policy_id \in PolicyIds, policy_content \in PolicyContents}
            \cup {ImportPolicyFolder(pp, folder) : pp \in before, folder \in PolicyFolders}

ProducerStates == ProducersAfter(MaxPolicyOps)

\* C26: a reload is atomic to observers.  At every moment the rule mapping
\* and the category index the scanner holds are the ones loaded from one and
\* the same state of the producer: never the mapping of one RuleSet with the
\* index of another.
C26_ReloadIsAtomic ==
    (repository_scanner.present /\ repository_scanner.has_processor) =>
        \E pp \in ProducerStates :
            LET loaded == LoadComplianceRules(repository_scanner, pp)
            IN ~loaded.exc /\ loaded.scanner = repository_scanner

\* ------------------------------------------------------------------ C27
\* C27: scan_repository calls running concurrently on one scanner, with no
\* reload in between, do not interfere.  Whatever the interleaving, a call
\* returns the violations, scanned files, summary and score that the same
\* call returns when it runs alone, and no step of a scan changes the
\* scanner's compliance_rules or scan_patterns.
C27_ConcurrentScansDoNotInterfere ==
    /\ [](\A s \in ScanIds :
            ReturnedFull(s) =>
                LET alone == ScanRepository(repository_scanner, fs, scan[s].repo_path, Extensions(scan[s].file_extensions))
                IN /\ scan[s].results.violations = alone.violations
                   /\ scan[s].results.scanned_files = alone.scanned_files
                   /\ scan[s].results.scan_summary = alone.scan_summary
                   /\ scan[s].results.compliance_score = alone.compliance_score)
    /\ [][scan' # scan =>
            /\ repository_scanner'.compliance_rules = repository_scanner.compliance_rules
            /\ repository_scanner'.scan_patterns = repository_scanner.scan_patterns]_vars

\* both calls are in the middle of their file loops, on different
\* extensions, each with violations found so far
C27_Witness ==
    /\ InLoop("s1")
    /\ InLoop("s2")
    /\ scan["s1"].next >= 2
    /\ scan["s2"].next >= 2
    /\ scan["s1"].results.violations # <<>>
    /\ scan["s2"].results.violations # <<>>
    /\ scan["s2"].file_extensions # scan["s1"].file_extensions

\* ------------------------------------------------------------------ C28
\* C28: after process_policy has succeeded for a policy, the producer holds,
\* for that policy, exactly the rules of its latest processing: every rule
\* stored under the policy's id is one the latest processing generated, and
\* every rule it generated is stored.
C28_NoStaleRules ==
    (policy_processor.present /\ policy_processor.compliance_rules.shape = "dict") =>
        LET d == policy_processor.compliance_rules.d
            recorded == policy_processor.processed_policies
        IN \A j \in 1..Len(recorded) :
              {d[k][1][2] : k \in {i \in 1..Len(d) : d[i][1][1] = recorded[j][1]}} = Range(recorded[j][2])

\* ------------------------------------------------------------------ C29
\* the request was served with AI enabled, use_ai set, an analyzer at hand,
\* and the analyzer's scan returned without error
AnalyzerScanSucceeded(r) ==
    /\ api.request[r].pc = "done"
    /\ api.ai_enabled
    /\ api.request[r].use_ai
    /\ api.request[r].analyzer # 0
    /\ "error" \notin DOMAIN AiResults(r)

\* C29: in /ai-scan, when AI is enabled, use_ai is set, the analyzer is
\* available and its scan returns without error, the response carries the
\* analyzer's findings as compliance_issues and its summary as
\* analysis_summary; the issues of analyze_repository_files are not used.
C29_AnalyzerResultsAreUsed ==
    \A r \in RequestIds :
        AnalyzerScanSucceeded(r) =>
            /\ "analysis_summary" \in DOMAIN api.request[r].response
            /\ api.request[r].response.compliance_issues = AiResults(r).violations

\* ------------------------------------------------------------------ C30
\* C30: the global analyzer is a singleton.  However concurrent get_analyzer
\* calls interleave, at most one ComplianceAnalyzer is constructed, and all
\* the callers that received an analyzer received the same one.
C30_AnalyzerIsSingleton ==
    /\ api.constructed <= 1
    /\ \A r1, r2 \in RequestIds :
          (api.request[r1].analyzer # 0 /\ api.request[r2].analyzer # 0) =>
              api.request[r1].analyzer = api.request[r2].analyzer
====
